---- MODULE Spec2Model ----
(***************************************************************************)
(* The approval/revision state machine of the DharaHIL SDK:                *)
(* DharaHILClient.before_execute, wait_for_decision, submit_proposal_update *)
(* and run_approval_loop (src/dharahil/client.py), with redact and         *)
(* ToolContext.to_dict, run against a gateway that is a black box.         *)
(* The gateway's own record of the pending action (gw) follows the data    *)
(* model of the specification.  What a remote call hands back to the       *)
(* client is fixed per run by `remote`: the gateway's current record, a    *)
(* current or earlier (cached) record, or any body of a bounded set.       *)
(*                                                                         *)
(* Spec is the client alone.  AdapterSpec is wrapped_tool of               *)
(* wrap_tool_with_dharahil (src/dharahil/langgraph_adapter.py), suspended  *)
(* at each interrupt and resumed with a payload.  EquivSpec runs the       *)
(* engine and then the adapter on the same arguments, verdicts, decisions  *)
(* and answers.  ConcurrentSpec interleaves two run_approval_loop calls on *)
(* one client.  RedactSpec runs the loop of redact one item at a time.     *)
(* RoundsSpec follows one run of the engine or of the adapter through a    *)
(* second proposal; RoundsFairSpec is its engine runs with every step that *)
(* can be taken eventually taken.                                          *)
(***************************************************************************)
EXTENDS Integers, Sequences, FiniteSets, TLC

----------------------------------------------------------------------------
(* Bounds of the model *)

\* Highest version a run reaches: a proposal is submitted only below it.
MaxVersion == 2
\* A wait is explored only for timings that allow at most this many fetches.
MaxPolls == 3

(* Constants of the program *)

DefaultTimeout == 600
MinTimeout == 10
ExpiryBuffer == 5

\* The request id the gateway hands out.
RequestId == "req-1"

\* The id it hands out for another action.
OtherRequestId == "req-2"

\* Python's None, for the fields that hold strings.
None == "<None>"

\* dict.get(k, default)
Get(d, k, default) == IF k \in DOMAIN d THEN d[k] ELSE default

Max(a, b) == IF a >= b THEN a ELSE b

\* (`s.startswith(sub)` for `sub in s`.)
Contains_AtStart(s, sub) == Len(s) >= Len(sub) /\ SubSeq(s, 1, Len(sub)) = sub

\* `sub in s` for strings, as sequences of characters
Contains(s, sub) ==
    \E i \in 1..(Len(s) - Len(sub) + 1) : SubSeq(s, i, i + Len(sub) - 1) = sub

----------------------------------------------------------------------------
(* Values *)

\* InterceptorAction.__members__
InterceptorActions == {"ALLOW", "DENY", "REQUIRE_APPROVAL"}

Statuses ==
    {"PENDING", "REVISE_REQUESTED", "APPROVED", "REJECTED", "AUTO_ALLOWED",
     "AUTO_DENIED", "EXPIRED", "ON_HOLD", ""}

Decisions == {None, "approve", "reject", "revise", "escalate"}

\* The bodies GET /v1/requests/{id} can answer with: status and last_decision,
\* optionally version, a note with a reject and an instruction with a revise.
Snapshots ==
    LET Base == [status : Statuses, last_decision : Decisions]
        V(S) == S \cup {s @@ [version |-> v] : s \in S, v \in 1..MaxVersion}
        Told(s) ==
            CASE s.last_decision = "reject" -> s @@ [last_decision_note |-> "too risky"]
              [] s.last_decision = "revise" ->
                     s @@ [last_decision_revise_input |-> "add greeting"]
              [] OTHER -> s
    IN  {Told(s) : s \in V(Base)}

\* The bodies POST /v1/requests/{id}/proposal can answer with.
ProposalResponses ==
    LET Base == [status : {"PENDING", "AUTO_ALLOWED", "AUTO_DENIED", "REVISE_REQUESTED"}]
    IN  Base \cup {s @@ [version |-> v] : s \in Base, v \in 1..MaxVersion}

\* expires_at as the gateway sends it: absent/null, the empty string, text
\* that is no ISO-8601 timestamp, a timestamp without offset, a number, or a
\* timestamp with offset naming the instant t, or t and a half when `half`.
ExpiresAtValues ==
    {[kind |-> "none"], [kind |-> "empty"], [kind |-> "garbage"],
     [kind |-> "naive"], [kind |-> "number"]}
    \cup {[kind |-> "iso", t |-> t, half |-> h] : t \in {-30, -1, 8}, h \in BOOLEAN}

\* The argument mappings of the explored runs; a string is the sequence of its
\* characters.
ArgSets ==
    {[text |-> <<"h", "e", "l", "l", "o">>],
     [text |-> <<"h", "e", "l", "l", "o", " ", "-", " ", "r", "e", "v", "i", "s", "e", "d">>],
     [text |-> <<"o", "k">>, Token |-> <<"s", "3", "c", "r", "3", "t">>]}

PollIntervals == {4, 300}

----------------------------------------------------------------------------
(* redaction.py *)

SECRET_KEYS == {"api_key", "apikey", "token", "password", "authorization", "cookie"}

MaskToken == <<"***REDACTED***">>

\* The characters [A-Za-z0-9] that occur in the explored values.
AlnumChars ==
    {"a", "b", "c", "d", "e", "h", "i", "k", "l", "o", "r", "s", "t", "v",
     "A", "B", "C", "0", "1", "2", "3", "4", "5", "6", "7", "8", "9"}

\* str.lower() on the field names of the explored mappings.
Lower(key) == IF key = "Token" THEN "token" ELSE key

is_secret_key(key) == Lower(key) \in SECRET_KEYS

\* re.search(r"[A-Za-z0-9]{12,}", value)
HasAlnumRun(value) ==
    \E i \in 1..(Len(value) - 11) : \A j \in i..(i + 11) : value[j] \in AlnumChars

mask_string(value) ==
    IF Len(value) > 12 /\ HasAlnumRun(value) THEN MaskToken ELSE value

\* A value that is no str is written as the name of its type followed by its
\* content; a str is the sequence of its characters.
TypeNames == {"int", "list", "NoneType"}

\* isinstance(value, str)
IsStr(value) == Len(value) = 0 \/ value[1] \notin TypeNames

\* One iteration of the loop of redact with every value taken for a str.
redact_item_AnyType(key, value) ==
    IF is_secret_key(key)
    THEN [value |-> MaskToken, fields |-> <<[key |-> key, reason |-> "secret_key"]>>]
    ELSE LET masked == mask_string(value)
         IN  IF masked # value
             THEN [value |-> masked, fields |-> <<[key |-> key, reason |-> "high_entropy"]>>]
             ELSE [value |-> value, fields |-> <<>>]

\* One iteration of the loop of redact: what is stored under the key and what
\* is appended to report["fields"].
redact_item(key, value) ==
    IF IsStr(value)
    THEN IF is_secret_key(key)
         THEN [value |-> MaskToken, fields |-> <<[key |-> key, reason |-> "secret_key"]>>]
         ELSE LET masked == mask_string(value)
              IN  IF masked # value
                  THEN [value |-> masked,
                        fields |-> <<[key |-> key, reason |-> "high_entropy"]>>]
                  ELSE [value |-> value, fields |-> <<>>]
    ELSE [value |-> value, fields |-> <<>>]

\* redact(data)[0], the redacted copy.
redact(data) == [key \in DOMAIN data |-> redact_item(key, data[key]).value]

----------------------------------------------------------------------------
(* client.py: before_execute *)

\* The client's own identity, as the tests construct it.
TenantId == "t1"
AppId == "a1"
Environment == "test"

\* isinstance(context, ToolContext): a ToolContext is written as the record of
\* its constructor's arguments with the field `class`.
IsToolContext(context) == "class" \in DOMAIN context

\* ToolContext.to_dict()
to_dict(self) ==
    [agent_id |-> self.agent_id,
     run_id |-> self.run_id,
     step_id |-> Get(self, "step_id", "step"),
     risk_level |-> Get(self, "risk_level", "MEDIUM"),
     tags |-> Get(self, "tags", <<>>),
     context_summary |-> Get(self, "context_summary", ""),
     idempotency_key |-> Get(self, "idempotency_key", ""),
     decision_url |-> Get(self, "decision_url", ""),
     metadata |-> Get(self, "metadata", <<>>),
     display |-> Get(self, "display", None)]

\* ctx: the context as a plain mapping.
Normalize(context) == IF IsToolContext(context) THEN to_dict(context) ELSE context

\* The body before_execute posts to /v1/requests.
RegisterPayload(tool_name, tool_args, context) ==
    LET ctx == Normalize(context)
    IN  [tenant_id |-> TenantId,
         app_id |-> AppId,
         agent_id |-> Get(ctx, "agent_id", "unknown"),
         run_id |-> Get(ctx, "run_id", "run"),
         step_id |-> Get(ctx, "step_id", "step"),
         tool_name |-> tool_name,
         tool_args |-> tool_args,
         tool_args_redacted |-> redact(tool_args),
         context_summary |-> Get(ctx, "context_summary", ""),
         risk_level |-> Get(ctx, "risk_level", "MEDIUM"),
         environment |-> Environment,
         tags |-> Get(ctx, "tags", <<>>),
         idempotency_key |-> Get(ctx, "idempotency_key", Get(ctx, "run_id", "run")),
         webhook |-> [decision_url |-> Get(ctx, "decision_url", "")],
         metadata |-> Get(ctx, "metadata", <<>>),
         display_hints |-> Get(ctx, "display", None)]

\* The error detail of a legacy HTTP 400 answer, as text.
Details ==
    {<<"D", "E", "N", "Y">>, <<"x", " ", "D", "E", "N", "Y", "!">>,
     <<"d", "e", "n", "y">>, <<"D", "E", "N">>, <<>>}

\* The JSON bodies of a 2xx answer to POST /v1/requests: with or without an
\* action, with request_id absent, null or set, with or without expires_at.
RegisterBodies ==
    LET A == {<<>>} \cup {[action |-> a] : a \in InterceptorActions \cup {"MAYBE", ""}}
        Nulls == {s @@ [request_id |-> None] : s \in A}
        Ids == {s @@ [request_id |-> RequestId] :
                   s \in {<<>>, [action |-> "ALLOW"], [action |-> "DENY"], [action |-> ""]}}
        Dated == {[request_id |-> RequestId, expires_at |-> e] :
                     e \in {x \in ExpiresAtValues :
                               x.kind \in {"garbage", "number", "iso"}}}
        DatedVerdicts ==
            {[action |-> "ALLOW", request_id |-> None,
              expires_at |-> [kind |-> "iso", t |-> 8, half |-> FALSE]],
             [action |-> "DENY", expires_at |-> [kind |-> "garbage"]]}
    IN  A \cup Nulls \cup Ids \cup Dated \cup DatedVerdicts
        \cup {[request_id |-> OtherRequestId]}

\* The answers to POST /v1/requests.
RegisterResponses ==
    {[status_code |-> 400, detail |-> d] : d \in Details}
    \cup {[status_code |-> 500]}
    \cup {[status_code |-> 200, data |-> b] : b \in RegisterBodies}

InterceptorResult(action, request_id, reason, expires_at) ==
    [action |-> action, request_id |-> request_id, reason |-> reason,
     expires_at |-> expires_at]

NoExpiry == [kind |-> "none"]

\* Python truthiness of a string-or-None field.
Truthy(x) == x # None /\ x # ""

\* (An action that names no InterceptorAction mapped to DENY.)
before_execute_UnknownDenied(resp) ==
    IF resp.status_code = 400
    THEN IF Contains(resp.detail, <<"D", "E", "N", "Y">>)
         THEN InterceptorResult("DENY", None, resp.detail, NoExpiry)
         ELSE InterceptorResult("ALLOW", None, resp.detail, NoExpiry)
    ELSE IF resp.status_code >= 400
    THEN [error |-> "HTTPStatusError"]
    ELSE LET data == resp.data
             action == Get(data, "action", None)
         IN  IF Truthy(action) /\ ~Truthy(Get(data, "request_id", None))
             THEN InterceptorResult(
                      IF action \in InterceptorActions THEN action ELSE "DENY",
                      None, <<"Policy decision: ", action>>, NoExpiry)
             ELSE IF "request_id" \notin DOMAIN data
             THEN [error |-> "KeyError"]
             ELSE InterceptorResult("REQUIRE_APPROVAL", data.request_id,
                                    <<"Awaiting human approval">>,
                                    Get(data, "expires_at", NoExpiry))

\* What before_execute makes of the answer: an InterceptorResult, or the error
\* it raises.
before_execute(resp) ==
    IF resp.status_code = 400
    THEN IF Contains(resp.detail, <<"D", "E", "N", "Y">>)
         THEN InterceptorResult("DENY", None, resp.detail, NoExpiry)
         ELSE InterceptorResult("ALLOW", None, resp.detail, NoExpiry)
    ELSE IF resp.status_code >= 400
    THEN [error |-> "HTTPStatusError"]
    ELSE LET data == resp.data
             action == Get(data, "action", None)
         IN  IF Truthy(action) /\ ~Truthy(Get(data, "request_id", None))
             THEN InterceptorResult(
                      IF action \in InterceptorActions THEN action ELSE "ALLOW",
                      None, <<"Policy decision: ", action>>, NoExpiry)
             ELSE IF "request_id" \notin DOMAIN data
             THEN [error |-> "KeyError"]
             ELSE InterceptorResult("REQUIRE_APPROVAL", data.request_id,
                                    <<"Awaiting human approval">>,
                                    Get(data, "expires_at", NoExpiry))

----------------------------------------------------------------------------
(* client.py: wait_for_decision *)

\* int((expiry - datetime.now(timezone.utc)).total_seconds()): the seconds from
\* now to expires_at, truncated toward zero.
IntRemaining(expires_at, now) ==
    LET whole == expires_at.t - now
    IN  IF expires_at.half /\ whole < 0 THEN whole + 1 ELSE whole

\* (The timeout derived from expires_at without its minimum.)
EffectiveTimeout_Unclamped(kwargs, now) ==
    IF "timeout_seconds" \in DOMAIN kwargs
    THEN [timeout |-> kwargs.timeout_seconds]
    ELSE IF kwargs.expires_at.kind \notin {"none", "empty"}
    THEN CASE kwargs.expires_at.kind = "iso" ->
                  [timeout |-> IntRemaining(kwargs.expires_at, now) + ExpiryBuffer]
           [] kwargs.expires_at.kind = "number" -> [error |-> "AttributeError"]
           [] OTHER -> [timeout |-> DefaultTimeout]
    ELSE [timeout |-> DefaultTimeout]

\* The effective timeout of a wait called with kwargs at instant now, or the
\* error the computation raises.
EffectiveTimeout(kwargs, now) ==
    IF "timeout_seconds" \in DOMAIN kwargs
    THEN [timeout |-> kwargs.timeout_seconds]
    ELSE IF kwargs.expires_at.kind \notin {"none", "empty"}
    THEN CASE kwargs.expires_at.kind = "iso" ->
                  [timeout |-> Max(IntRemaining(kwargs.expires_at, now) + ExpiryBuffer,
                                   MinTimeout)]
           [] kwargs.expires_at.kind = "number" -> [error |-> "AttributeError"]
           [] OTHER -> [timeout |-> DefaultTimeout]
    ELSE [timeout |-> DefaultTimeout]

\* (The filter with > for >=: a decision at after_version itself is kept.)
HasDecision_Strict(last, kwargs) ==
    LET has_decision == Get(last, "last_decision", None) # None
    IN  IF has_decision /\ "after_version" \in DOMAIN kwargs
        THEN LET current_status == Get(last, "status", "")
                 current_version == Get(last, "version", 1)
             IN  IF current_status = "REVISE_REQUESTED"
                    /\ current_version > kwargs.after_version
                 THEN FALSE
                 ELSE IF current_status = "PENDING"
                         /\ current_version > kwargs.after_version
                 THEN FALSE
                 ELSE TRUE
        ELSE has_decision

\* has_decision after the staleness filter, for the fetched snapshot `last`.
HasDecision(last, kwargs) ==
    LET has_decision == Get(last, "last_decision", None) # None
    IN  IF has_decision /\ "after_version" \in DOMAIN kwargs
        THEN LET current_status == Get(last, "status", "")
                 current_version == Get(last, "version", 1)
             IN  IF current_status = "REVISE_REQUESTED"
                    /\ current_version >= kwargs.after_version
                 THEN FALSE
                 ELSE IF current_status = "PENDING"
                         /\ current_version >= kwargs.after_version
                 THEN FALSE
                 ELSE TRUE
        ELSE has_decision

\* (The wait without its early return on a terminal status.)
WaitReturns_DecisionOnly(last, kwargs) == HasDecision(last, kwargs)

\* (The wait returning whatever it fetched first.)
WaitReturns_FirstFetch(last, kwargs) == TRUE

\* Whether the wait returns `last` (TRUE) or sleeps and fetches again (FALSE).
WaitReturns(last, kwargs) ==
    IF HasDecision(last, kwargs)
    THEN TRUE
    ELSE Get(last, "status", "") \notin {"PENDING", "REVISE_REQUESTED"}

\* The loop condition of wait_for_decision: time.time() < deadline.
BeforeDeadline_Inclusive(t, d) == t <= d

BeforeDeadline(t, d) == t < d

TimeoutError(request_id, effective_timeout) ==
    [error |-> "TimeoutError", request_id |-> request_id, seconds |-> effective_timeout]

----------------------------------------------------------------------------
(* client.py: run_approval_loop *)

\* Whether the verdict ends run_approval_loop at once.
IsImmediate_AllowOnly(result) == result.action = "ALLOW"

IsImmediate(result) == result.action \in {"ALLOW", "DENY"}

\* (The branches with the revise test ahead of the policy and expiry tests.)
Branch_ReviseFirst(decision_data) ==
    LET decision == Get(decision_data, "last_decision", None)
        status == Get(decision_data, "status", "")
    IN  IF decision = "approve" \/ status = "APPROVED" THEN "APPROVED"
        ELSE IF decision = "reject" \/ status = "REJECTED" THEN "REJECTED"
        ELSE IF decision = "revise" \/ status = "REVISE_REQUESTED" THEN "REVISE"
        ELSE IF status = "AUTO_ALLOWED" THEN "AUTO_ALLOWED"
        ELSE IF status = "AUTO_DENIED" THEN "AUTO_DENIED"
        ELSE IF status = "EXPIRED" THEN "EXPIRED"
        ELSE "UNKNOWN"

\* (The policy and expiry statuses tested ahead of the decisions.)
Branch_StatusFirst(decision_data) ==
    LET decision == Get(decision_data, "last_decision", None)
        status == Get(decision_data, "status", "")
    IN  IF status = "AUTO_ALLOWED" THEN "AUTO_ALLOWED"
        ELSE IF status = "AUTO_DENIED" THEN "AUTO_DENIED"
        ELSE IF status = "EXPIRED" THEN "EXPIRED"
        ELSE IF decision = "approve" \/ status = "APPROVED" THEN "APPROVED"
        ELSE IF decision = "reject" \/ status = "REJECTED" THEN "REJECTED"
        ELSE IF decision = "revise" \/ status = "REVISE_REQUESTED" THEN "REVISE"
        ELSE "UNKNOWN"

\* The branch run_approval_loop takes on the snapshot the wait returned.
Branch(decision_data) ==
    LET decision == Get(decision_data, "last_decision", None)
        status == Get(decision_data, "status", "")
    IN  IF decision = "approve" \/ status = "APPROVED" THEN "APPROVED"
        ELSE IF decision = "reject" \/ status = "REJECTED" THEN "REJECTED"
        ELSE IF status = "AUTO_ALLOWED" THEN "AUTO_ALLOWED"
        ELSE IF status = "AUTO_DENIED" THEN "AUTO_DENIED"
        ELSE IF status = "EXPIRED" THEN "EXPIRED"
        ELSE IF decision = "revise" \/ status = "REVISE_REQUESTED" THEN "REVISE"
        ELSE "UNKNOWN"

AutoDeniedReason == <<"Policy auto-denied the revised proposal">>

\* (The unknown outcome always tagged UNKNOWN, the status left to `raw`.)
LoopOutcome_TagUnknown(branch, decision_data, request_id, current_args, current_version) ==
    CASE branch = "APPROVED" ->
             [action |-> "APPROVED", request_id |-> request_id,
              tool_args |-> current_args,
              version |-> Get(decision_data, "version", current_version)]
      [] branch = "REJECTED" ->
             [action |-> "REJECTED", request_id |-> request_id,
              note |-> Get(decision_data, "last_decision_note", ""),
              version |-> Get(decision_data, "version", current_version)]
      [] branch = "AUTO_ALLOWED" ->
             [action |-> "AUTO_ALLOWED", request_id |-> request_id,
              tool_args |-> current_args]
      [] branch = "AUTO_DENIED" ->
             [action |-> "AUTO_DENIED", request_id |-> request_id,
              reason |-> AutoDeniedReason]
      [] branch = "EXPIRED" ->
             [action |-> "EXPIRED", request_id |-> request_id]
      [] branch = "REVISE" ->
             [action |-> "REVISE_REQUESTED", request_id |-> request_id,
              revise_input |-> Get(decision_data, "last_decision_revise_input", ""),
              current_args |-> current_args, version |-> current_version]
      [] OTHER ->
             [action |-> "UNKNOWN",
              request_id |-> request_id, raw |-> decision_data]

\* The dict run_approval_loop returns on a branch that ends the run.
LoopOutcome(branch, decision_data, request_id, current_args, current_version) ==
    CASE branch = "APPROVED" ->
             [action |-> "APPROVED", request_id |-> request_id,
              tool_args |-> current_args,
              version |-> Get(decision_data, "version", current_version)]
      [] branch = "REJECTED" ->
             [action |-> "REJECTED", request_id |-> request_id,
              note |-> Get(decision_data, "last_decision_note", ""),
              version |-> Get(decision_data, "version", current_version)]
      [] branch = "AUTO_ALLOWED" ->
             [action |-> "AUTO_ALLOWED", request_id |-> request_id,
              tool_args |-> current_args]
      [] branch = "AUTO_DENIED" ->
             [action |-> "AUTO_DENIED", request_id |-> request_id,
              reason |-> AutoDeniedReason]
      [] branch = "EXPIRED" ->
             [action |-> "EXPIRED", request_id |-> request_id]
      [] branch = "REVISE" ->
             [action |-> "REVISE_REQUESTED", request_id |-> request_id,
              revise_input |-> Get(decision_data, "last_decision_revise_input", ""),
              current_args |-> current_args, version |-> current_version]
      [] OTHER ->
             [action |-> IF Get(decision_data, "status", "") # ""
                         THEN decision_data.status ELSE "UNKNOWN",
              request_id |-> request_id, raw |-> decision_data]

\* The dict run_approval_loop returns on an immediate verdict.
VerdictOutcome(result, tool_args) ==
    IF result.action = "ALLOW"
    THEN [action |-> "ALLOW", tool_args |-> tool_args]
    ELSE [action |-> "DENY", reason |-> result.reason]

\* (The arguments sent as they are in the place of the redacted ones.)
Proposal_Unredacted(current_version, tool_name, current_args, ctx) ==
    [version_from |-> current_version,
     updated_tool_name |-> tool_name,
     updated_tool_args |-> current_args,
     updated_tool_args_redacted |-> current_args,
     updated_context_summary |-> Get(ctx, "context_summary", ""),
     updated_risk_level |-> Get(ctx, "risk_level", "MEDIUM"),
     tags |-> Get(ctx, "tags", <<>>)]

\* The keyword arguments submit_proposal_update is called with.
Proposal(current_version, tool_name, current_args, ctx) ==
    [version_from |-> current_version,
     updated_tool_name |-> tool_name,
     updated_tool_args |-> current_args,
     updated_tool_args_redacted |-> redact(current_args),
     updated_context_summary |-> Get(ctx, "context_summary", ""),
     updated_risk_level |-> Get(ctx, "risk_level", "MEDIUM"),
     tags |-> Get(ctx, "tags", <<>>)]

\* display_hints as passed to submit_proposal_update: None, or a mapping.
NoHints == [kind |-> "none"]

DisplayHintsValues ==
    {NoHints,
     [kind |-> "dict", value |-> <<>>],
     [kind |-> "dict", value |-> [title |-> "Email", category |-> "comm",
                                  sections |-> <<>>]]}

\* (display_hints sent only when the mapping passed is not empty.)
ProposalPayload_HintsIfTruthy(kw) ==
    LET base == [version_from |-> kw.version_from,
                 updated_tool_name |-> kw.updated_tool_name,
                 updated_tool_args |-> kw.updated_tool_args,
                 updated_tool_args_redacted |-> kw.updated_tool_args_redacted,
                 updated_context_summary |-> kw.updated_context_summary,
                 updated_risk_level |-> kw.updated_risk_level,
                 tags |-> kw.tags]
        display_hints == Get(kw, "display_hints", NoHints)
    IN  IF display_hints.kind # "none" /\ DOMAIN display_hints.value # {}
        THEN base @@ [display_hints |-> display_hints.value]
        ELSE base

\* The body submit_proposal_update posts, from its keyword arguments.
ProposalPayload(kw) ==
    LET base == [version_from |-> kw.version_from,
                 updated_tool_name |-> kw.updated_tool_name,
                 updated_tool_args |-> kw.updated_tool_args,
                 updated_tool_args_redacted |-> kw.updated_tool_args_redacted,
                 updated_context_summary |-> kw.updated_context_summary,
                 updated_risk_level |-> kw.updated_risk_level,
                 tags |-> kw.tags]
        display_hints == Get(kw, "display_hints", NoHints)
    IN  IF display_hints.kind # "none"
        THEN base @@ [display_hints |-> display_hints.value]
        ELSE base

\* Whether the revise branch calls the callback (or returns to the caller).
Negotiates_Always(branch, on_revise) == branch = "REVISE"

Negotiates(branch, on_revise) == branch = "REVISE" /\ on_revise

\* (current_version left as it was.)
NextVersion_Kept(proposal_resp, current_version) == current_version

\* current_version after the answer to a proposal.
NextVersion(proposal_resp, current_version) ==
    Get(proposal_resp, "version", current_version + 1)

\* Whether the answer to a proposal ends the run: policy resolved it.
AutoResolved_AllowOnly(new_status) == new_status = "AUTO_ALLOWED"

AutoResolved(new_status) == new_status \in {"AUTO_ALLOWED", "AUTO_DENIED"}

\* (after_version never passed.)
LoopWaitArgs_NeverFiltered(request_id, result, poll_interval_seconds, current_version) ==
    [request_id |-> request_id, expires_at |-> result.expires_at,
     poll_interval_seconds |-> poll_interval_seconds]

\* (after_version passed on every wait, the first included.)
LoopWaitArgs_AlwaysFiltered(request_id, result, poll_interval_seconds, current_version) ==
    [request_id |-> request_id, expires_at |-> result.expires_at,
     poll_interval_seconds |-> poll_interval_seconds,
     after_version |-> current_version]

\* The keyword arguments run_approval_loop passes to wait_for_decision.
LoopWaitArgs(request_id, result, poll_interval_seconds, current_version) ==
    LET base == [request_id |-> request_id, expires_at |-> result.expires_at,
                 poll_interval_seconds |-> poll_interval_seconds]
    IN  IF current_version > 1
        THEN base @@ [after_version |-> current_version]
        ELSE base

----------------------------------------------------------------------------
(* The state *)

VARIABLES
    pc,               \* where the caller's call stands
    mode,             \* the entry point called: "loop" or "wait"
    input,            \* the arguments of run_approval_loop
    payload,          \* the body before_execute posted to /v1/requests
    resp,             \* the answer to it
    result,           \* the InterceptorResult of before_execute
    request_id, current_version, current_args,   \* locals of run_approval_loop
    kwargs,           \* the keyword arguments of the running wait_for_decision
    effective_timeout, deadline,                 \* locals of wait_for_decision
    now,              \* time.time()
    decision_data,    \* the snapshot the last wait returned
    proposal_resp,    \* the answer to the last proposal
    outcome,          \* what the call returned
    error,            \* what the call raised
    gw,               \* the gateway's record of the pending action
    past,             \* the earlier records of the gateway
    remote,           \* what the remote answers with: "current", "cached" or "any"
    calls,            \* how often each collaborator was called
    polled,           \* the fetches of the running wait, by what they fetched
    last_proposal,    \* the keyword arguments of the last proposal
    sent,             \* the body submit_proposal_update posted last
    requests,         \* the HTTP requests issued, by operation
    callback_args,    \* what the revision callback returned last
    adapter,          \* the run of the adapter's wrapped_tool: its locals and calls
    redaction,        \* the call of redact: its argument and what it returned
    parked            \* the locals of a second run_approval_loop, suspended at an await

vars ==
    <<pc, mode, input, payload, resp, result, request_id, current_version, current_args, kwargs,
      effective_timeout, deadline, now, decision_data, proposal_resp, outcome,
      error, gw, past, remote, calls, polled, last_proposal, sent, requests,
      callback_args, adapter, redaction, parked>>

\* The variables of the client's own calls.
client_vars ==
    <<pc, mode, input, payload, resp, result, request_id, current_version, current_args, kwargs,
      effective_timeout, deadline, now, decision_data, proposal_resp, outcome,
      error, gw, past, remote, calls, polled, last_proposal, sent, requests,
      callback_args>>

\* What a step of a call of the client leaves alone: the adapter's run, the
\* call of redact, and the locals of a suspended call.
beside == <<adapter, redaction, parked>>

Empty == <<>>

NoCalls == [get_request |-> 0, on_revise |-> 0, submit_proposal_update |-> 0]
NoRequests == [register |-> 0, status |-> 0, proposal |-> 0]
NoPolls == [fetched |-> 0, stale |-> 0, undecided |-> 0, terminal |-> 0]

\* The pending action as registration creates it.
NewPendingAction == [status |-> "PENDING", version |-> 1, last_decision |-> None]

Contexts == {[context_summary |-> "test", risk_level |-> "LOW", tags |-> <<>>]}

Remotes == {"current", "cached", "any"}

\* Contexts that name the run, as a plain mapping and as a ToolContext, with
\* and without an idempotency key.
RunContexts ==
    LET Plain == [agent_id |-> "ag1", run_id |-> "run-7"]
        Typed == [class |-> "ToolContext", agent_id |-> "ag1", run_id |-> "run-7"]
    IN  {Plain, Plain @@ [idempotency_key |-> "idem-1"],
         Typed, Typed @@ [idempotency_key |-> "idem-1"]}

Inputs ==
    [tool_name : {"send_email"}, tool_args : ArgSets, context : Contexts,
     on_revise : BOOLEAN, poll_interval_seconds : PollIntervals]
    \cup [tool_name : {"send_email"},
          tool_args : {[text |-> <<"o", "k">>, Token |-> <<"s", "3", "c", "r", "3", "t">>]},
          context : RunContexts, on_revise : {FALSE}, poll_interval_seconds : {300}]

\* The runs explored against a remote that answers anything.
AnyInputs ==
    {i \in Inputs : /\ i.tool_args = [text |-> <<"h", "e", "l", "l", "o">>]
                    /\ i.poll_interval_seconds = 300}

\* The client before a call.
ClientInit ==
    /\ pc = "start"
    /\ mode = "loop"
    /\ remote \in Remotes
    /\ payload = Empty
    /\ resp = Empty
    /\ result = Empty
    /\ request_id = None
    /\ current_version = 1
    /\ current_args = Empty
    /\ kwargs = Empty
    /\ effective_timeout = 0
    /\ deadline = 0
    /\ now = 0
    /\ decision_data = Empty
    /\ proposal_resp = Empty
    /\ outcome = Empty
    /\ error = Empty
    /\ gw = NewPendingAction
    /\ past = {}
    /\ calls = NoCalls
    /\ polled = NoPolls
    /\ last_proposal = Empty
    /\ sent = Empty
    /\ requests = NoRequests
    /\ callback_args = Empty

Init ==
    /\ ClientInit
    /\ input \in IF remote = "any" THEN AnyInputs ELSE Inputs
    /\ adapter = Empty
    /\ redaction = Empty
    /\ parked = Empty

Running == pc \in {"poll", "sleep", "callback", "submit"}

\* The arguments of the runs that are followed through one proposal more than
\* the others.
DeepArgs == [text |-> <<"h", "i">>, password |-> <<"s", "3", "c", "r", "3", "t">>]

\* The number of proposals a run called with tool_args is followed through.
Rounds(tool_args) == IF tool_args = DeepArgs THEN MaxVersion ELSE MaxVersion - 1

\* The timings explored: a wait that can fetch at most MaxPolls times.
WithinPolls(kw, t) ==
    LET timeout == EffectiveTimeout(kw, t)
    IN  "timeout" \in DOMAIN timeout =>
            timeout.timeout <= kw.poll_interval_seconds * MaxPolls

\* wait_for_decision(**kw) up to its loop: the timeout and the deadline.
StartWait(kw) ==
    LET timeout == EffectiveTimeout(kw, now)
    IN  /\ kwargs' = kw
        /\ polled' = NoPolls
        /\ decision_data' = Empty
        /\ IF "error" \in DOMAIN timeout
           THEN /\ pc' = "raised"
                /\ error' = timeout
                /\ UNCHANGED <<effective_timeout, deadline>>
           ELSE /\ pc' = "poll"
                /\ effective_timeout' = timeout.timeout
                /\ deadline' = now + timeout.timeout
                /\ UNCHANGED error

\* run_approval_loop up to its first wait: before_execute answers.
Register ==
    /\ pc = "start"
    /\ UNCHANGED beside
    /\ payload' = RegisterPayload(input.tool_name, input.tool_args,
                                  Normalize(input.context))
    /\ requests' = [requests EXCEPT !.register = @ + 1]
    /\ \E answer \in RegisterResponses :
         LET r == before_execute(answer)
         IN  /\ mode' = "loop"
             /\ resp' = answer
             /\ IF "error" \in DOMAIN r
                THEN /\ pc' = "raised"
                     /\ error' = r
                     /\ UNCHANGED <<result, request_id, current_version, current_args,
                                    kwargs, effective_timeout, deadline, outcome, polled,
                                    decision_data>>
                ELSE /\ result' = r
                     /\ IF IsImmediate(r)
                        THEN /\ pc' = "done"
                             /\ outcome' = VerdictOutcome(r, input.tool_args)
                             /\ UNCHANGED <<request_id, current_version, current_args,
                                            kwargs, effective_timeout, deadline, error,
                                            polled, decision_data>>
                        ELSE LET kw == LoopWaitArgs(r.request_id, r,
                                                    input.poll_interval_seconds, 1)
                             IN  /\ WithinPolls(kw, now)
                                 /\ request_id' = r.request_id
                                 /\ current_version' = 1
                                 /\ current_args' = input.tool_args
                                 /\ StartWait(kw)
                                 /\ UNCHANGED outcome
    /\ UNCHANGED <<input, now, proposal_resp, gw, past, remote, calls, last_proposal, sent,
                   callback_args>>

\* The keyword arguments of the direct calls of wait_for_decision explored.
WaitCalls ==
    LET Timed == [request_id : {RequestId},
                  expires_at : {NoExpiry, [kind |-> "iso", t |-> 8, half |-> FALSE],
                                [kind |-> "number"]},
                  poll_interval_seconds : {4}, timeout_seconds : {1, 7}]
        Dated == [request_id : {RequestId},
                  expires_at : {[kind |-> "iso", t |-> -30, half |-> TRUE],
                                [kind |-> "garbage"]},
                  poll_interval_seconds : PollIntervals]
        A(S) == S \cup {k @@ [after_version |-> v] : k \in S, v \in 1..MaxVersion}
    IN  A(Timed \cup Dated)

\* A caller calls wait_for_decision itself.
CallWait ==
    /\ pc = "start"
    /\ UNCHANGED beside
    /\ \E kw \in WaitCalls :
         /\ WithinPolls(kw, now)
         /\ mode' = "wait"
         /\ request_id' = kw.request_id
         /\ StartWait(kw)
    /\ UNCHANGED <<input, payload, resp, result, current_version, current_args, now, proposal_resp,
                   outcome, gw, past, remote, calls, requests, last_proposal, sent, callback_args>>

\* A fetched snapshot that carries a decision on a waiting status at a version
\* not below after_version (a missing version counting as 1).
StaleOnArrival(last, kw) ==
    /\ "after_version" \in DOMAIN kw
    /\ last.last_decision # None
    /\ last.status \in {"PENDING", "REVISE_REQUESTED"}
    /\ Get(last, "version", 1) >= kw.after_version

\* A fetched snapshot with no decision on a waiting status.
Undecided(last) ==
    last.last_decision = None /\ last.status \in {"PENDING", "REVISE_REQUESTED"}

\* A fetched snapshot whose status is neither PENDING nor REVISE_REQUESTED.
Terminal(last) == Get(last, "status", "") \notin {"PENDING", "REVISE_REQUESTED"}

\* What GET /v1/requests/{id} can answer with now.
Answers ==
    CASE remote = "current" -> {gw}
      [] remote = "cached" -> past \cup {gw}
      [] OTHER -> Snapshots

\* One turn of the loop of wait_for_decision before the deadline: get_request
\* answers, the wait returns the snapshot or goes to sleep, and on a return
\* run_approval_loop branches on it.
FetchStatus ==
    /\ pc = "poll"
    /\ UNCHANGED beside
    /\ BeforeDeadline(now, deadline)
    /\ \E last \in Answers :
         /\ calls' = [calls EXCEPT !.get_request = @ + 1]
         /\ requests' = [requests EXCEPT !.status = @ + 1]
         /\ polled' = [fetched |-> polled.fetched + 1,
                       stale |-> polled.stale + (IF StaleOnArrival(last, kwargs) THEN 1 ELSE 0),
                       undecided |-> polled.undecided + (IF Undecided(last) THEN 1 ELSE 0),
                       terminal |-> polled.terminal + (IF Terminal(last) THEN 1 ELSE 0)]
         /\ IF WaitReturns(last, kwargs)
            THEN /\ decision_data' = last
                 /\ IF mode = "wait"
                    THEN /\ pc' = "done"
                         /\ outcome' = last
                    ELSE IF Negotiates(Branch(last), input.on_revise)
                    THEN /\ pc' = "callback"
                         /\ UNCHANGED outcome
                    ELSE /\ pc' = "done"
                         /\ outcome' = LoopOutcome(Branch(last), last, request_id,
                                                   current_args, current_version)
            ELSE /\ pc' = "sleep"
                 /\ UNCHANGED <<decision_data, outcome>>
    /\ UNCHANGED <<mode, input, payload, resp, result, request_id, current_version, current_args,
                   kwargs, effective_timeout, deadline, now, proposal_resp, error, gw,
                   past, remote, last_proposal, sent, callback_args>>

\* (get_request tries a second time before it raises.)
FetchFails_RetriedOnce ==
    /\ pc = "poll"
    /\ UNCHANGED beside
    /\ BeforeDeadline(now, deadline)
    /\ calls' = [calls EXCEPT !.get_request = @ + 1]
    /\ requests' = [requests EXCEPT !.status = @ + 2]
    /\ pc' = "raised"
    /\ error' = [error |-> "HTTPError", call |-> "get_request"]
    /\ UNCHANGED <<mode, input, payload, resp, result, request_id, current_version, current_args,
                   kwargs, effective_timeout, deadline, now, decision_data,
                   proposal_resp, outcome, gw, past, remote, polled, last_proposal, sent,
                   callback_args>>

\* get_request raises: a transport failure or a non-2xx answer.
FetchFails ==
    /\ pc = "poll"
    /\ UNCHANGED beside
    /\ BeforeDeadline(now, deadline)
    /\ calls' = [calls EXCEPT !.get_request = @ + 1]
    /\ requests' = [requests EXCEPT !.status = @ + 1]
    /\ pc' = "raised"
    /\ error' = [error |-> "HTTPError", call |-> "get_request"]
    /\ UNCHANGED <<mode, input, payload, resp, result, request_id, current_version, current_args,
                   kwargs, effective_timeout, deadline, now, decision_data,
                   proposal_resp, outcome, gw, past, remote, polled, last_proposal, sent,
                   callback_args>>

\* The loop condition of wait_for_decision fails: the wait raises.
DeadlineExceeded ==
    /\ pc = "poll"
    /\ UNCHANGED beside
    /\ ~BeforeDeadline(now, deadline)
    /\ pc' = "raised"
    /\ error' = TimeoutError(kwargs.request_id, effective_timeout)
    /\ UNCHANGED <<mode, input, payload, resp, result, request_id, current_version, current_args,
                   kwargs, effective_timeout, deadline, now, decision_data,
                   proposal_resp, outcome, gw, past, remote, calls, requests, polled, last_proposal, sent,
                   callback_args>>

\* (The sleep grows with the number of fetches made.)
Sleep_Backoff ==
    /\ pc = "sleep"
    /\ UNCHANGED beside
    /\ now' = now + kwargs.poll_interval_seconds * polled.fetched
    /\ pc' = "poll"
    /\ UNCHANGED <<mode, input, payload, resp, result, request_id, current_version, current_args,
                   kwargs, effective_timeout, deadline, decision_data, proposal_resp,
                   outcome, error, gw, past, remote, calls, requests, polled, last_proposal, sent,
                   callback_args>>

\* asyncio.sleep(poll_interval_seconds) returns.
Sleep ==
    /\ pc = "sleep"
    /\ UNCHANGED beside
    /\ now' = now + kwargs.poll_interval_seconds
    /\ pc' = "poll"
    /\ UNCHANGED <<mode, input, payload, resp, result, request_id, current_version, current_args,
                   kwargs, effective_timeout, deadline, decision_data, proposal_resp,
                   outcome, error, gw, past, remote, calls, requests, polled, last_proposal, sent,
                   callback_args>>

\* (The callback's arguments sent on, current_args left as it was.)
Callback_ArgsKept ==
    /\ pc = "callback"
    /\ UNCHANGED beside
    /\ \E updated_args \in ArgSets : callback_args' = updated_args
    /\ calls' = [calls EXCEPT !.on_revise = @ + 1]
    /\ UNCHANGED requests
    /\ pc' = "submit"
    /\ UNCHANGED <<mode, input, payload, resp, result, request_id, current_version, current_args,
                   kwargs, effective_timeout, deadline, now, decision_data,
                   proposal_resp, outcome, error, gw, past, remote, polled,
                   last_proposal, sent>>

\* (The callback's arguments merged into current_args, as dict.update does.)
Callback_Merged ==
    /\ pc = "callback"
    /\ UNCHANGED beside
    /\ \E updated_args \in ArgSets :
         /\ current_args' = updated_args @@ current_args
         /\ callback_args' = updated_args
    /\ calls' = [calls EXCEPT !.on_revise = @ + 1]
    /\ UNCHANGED requests
    /\ pc' = "submit"
    /\ UNCHANGED <<mode, input, payload, resp, result, request_id, current_version, kwargs,
                   effective_timeout, deadline, now, decision_data, proposal_resp,
                   outcome, error, gw, past, remote, polled, last_proposal, sent>>

\* on_revise(current_args, revise_input, {}) returns the updated arguments.
Callback ==
    /\ pc = "callback"
    /\ UNCHANGED beside
    /\ \E updated_args \in ArgSets :
         /\ current_args' = updated_args
         /\ callback_args' = updated_args
    /\ calls' = [calls EXCEPT !.on_revise = @ + 1]
    /\ UNCHANGED requests
    /\ pc' = "submit"
    /\ UNCHANGED <<mode, input, payload, resp, result, request_id, current_version, kwargs,
                   effective_timeout, deadline, now, decision_data, proposal_resp,
                   outcome, error, gw, past, remote, polled, last_proposal, sent>>

\* (The callback's failure caught, the negotiation going on with the old
\* arguments.)
CallbackFails_Swallowed ==
    /\ pc = "callback"
    /\ UNCHANGED beside
    /\ calls' = [calls EXCEPT !.on_revise = @ + 1]
    /\ UNCHANGED requests
    /\ pc' = "submit"
    /\ UNCHANGED <<mode, input, payload, resp, result, request_id, current_version, current_args,
                   kwargs, effective_timeout, deadline, now, decision_data,
                   proposal_resp, outcome, error, gw, past, remote, polled, last_proposal, sent,
                   callback_args>>

\* on_revise raises.
CallbackFails ==
    /\ pc = "callback"
    /\ UNCHANGED beside
    /\ calls' = [calls EXCEPT !.on_revise = @ + 1]
    /\ UNCHANGED requests
    /\ pc' = "raised"
    /\ error' = [error |-> "CallbackError", call |-> "on_revise"]
    /\ UNCHANGED <<mode, input, payload, resp, result, request_id, current_version, current_args,
                   kwargs, effective_timeout, deadline, now, decision_data,
                   proposal_resp, outcome, gw, past, remote, polled, last_proposal, sent,
                   callback_args>>

\* The gateway takes a proposal when it waits for one on the version named.
GatewayAccepts(p) ==
    gw.status = "REVISE_REQUESTED" /\ p.version_from = gw.version

\* What POST /v1/requests/{id}/proposal can answer with when policy resolves
\* the proposal to `policy`.
ProposalAnswers(policy) ==
    IF remote = "any"
    THEN ProposalResponses
    ELSE {[status |-> policy, version |-> gw.version + 1]}

\* submit_proposal_update answers; run_approval_loop adopts the version and
\* either ends on a policy status or calls wait_for_decision again.
Submit ==
    /\ pc = "submit"
    /\ UNCHANGED beside
    /\ calls.submit_proposal_update < Rounds(input.tool_args)
    /\ LET p == Proposal(current_version, input.tool_name, current_args,
                        Normalize(input.context))
       IN  /\ remote # "any" => GatewayAccepts(p)
           /\ \E policy \in {"PENDING", "AUTO_ALLOWED", "AUTO_DENIED"} :
                \E r \in ProposalAnswers(policy) :
                  LET version == NextVersion(r, current_version)
                  IN  /\ IF remote # "any"
                         THEN /\ gw' = [gw EXCEPT !.version = @ + 1, !.status = policy]
                              /\ past' = past \cup {gw}
                         ELSE UNCHANGED <<gw, past>>
                      /\ last_proposal' = p
                      /\ proposal_resp' = r
                      /\ current_version' = version
                      /\ calls' = [calls EXCEPT !.submit_proposal_update = @ + 1]
                      /\ requests' = [requests EXCEPT !.proposal = @ + 1]
                      /\ sent' = ProposalPayload(p)
                      /\ IF AutoResolved(r.status)
                         THEN /\ pc' = "done"
                              /\ outcome' = LoopOutcome(r.status, decision_data, request_id,
                                                        current_args, version)
                              /\ UNCHANGED <<kwargs, effective_timeout, deadline, error,
                                             polled, decision_data>>
                         ELSE /\ StartWait(LoopWaitArgs(request_id, result,
                                                        input.poll_interval_seconds,
                                                        version))
                              /\ UNCHANGED outcome
    /\ UNCHANGED <<mode, input, payload, resp, result, request_id, current_args, now, remote,
                   callback_args>>

\* submit_proposal_update raises: a transport failure or a non-2xx answer.
SubmitFails ==
    /\ pc = "submit"
    /\ UNCHANGED beside
    /\ calls.submit_proposal_update < Rounds(input.tool_args)
    /\ last_proposal' = Proposal(current_version, input.tool_name, current_args,
                                 Normalize(input.context))
    /\ sent' = ProposalPayload(Proposal(current_version, input.tool_name, current_args,
                                        Normalize(input.context)))
    /\ calls' = [calls EXCEPT !.submit_proposal_update = @ + 1]
    /\ requests' = [requests EXCEPT !.proposal = @ + 1]
    /\ pc' = "raised"
    /\ error' = [error |-> "HTTPError", call |-> "submit_proposal_update"]
    /\ UNCHANGED <<mode, input, payload, resp, result, request_id, current_version, current_args,
                   kwargs, effective_timeout, deadline, now, decision_data,
                   proposal_resp, outcome, gw, past, remote, polled, callback_args>>

\* The keyword arguments of the direct calls of submit_proposal_update
\* explored: display_hints not passed, None, an empty and a filled mapping.
SubmitCalls ==
    LET base == [version_from |-> 1,
                 updated_tool_name |-> "send_email",
                 updated_tool_args |->
                     [text |-> <<"o", "k">>, Token |-> <<"s", "3", "c", "r", "3", "t">>],
                 updated_tool_args_redacted |-> [text |-> <<"o", "k">>],
                 updated_context_summary |-> "test",
                 updated_risk_level |-> "LOW",
                 tags |-> <<"email">>]
    IN  {base} \cup {base @@ [display_hints |-> h] : h \in DisplayHintsValues}

\* A caller calls submit_proposal_update itself: one POST, whose answer is
\* returned as it is, or whose failure is raised.
CallSubmit ==
    /\ pc = "start"
    /\ UNCHANGED beside
    /\ \E kw \in SubmitCalls :
         /\ mode' = "submit"
         /\ request_id' = RequestId
         /\ last_proposal' = kw
         /\ sent' = ProposalPayload(kw)
         /\ calls' = [calls EXCEPT !.submit_proposal_update = @ + 1]
         /\ requests' = [requests EXCEPT !.proposal = @ + 1]
         /\ \/ \E r \in ProposalResponses :
                  /\ proposal_resp' = r
                  /\ outcome' = r
                  /\ pc' = "done"
                  /\ UNCHANGED error
            \/ /\ pc' = "raised"
               /\ error' = [error |-> "HTTPError", call |-> "submit_proposal_update"]
               /\ UNCHANGED <<proposal_resp, outcome>>
    /\ UNCHANGED <<input, payload, resp, result, current_version, current_args, kwargs,
                   effective_timeout, deadline, now, decision_data, gw, past, remote,
                   polled, callback_args>>

----------------------------------------------------------------------------
(* The gateway: the reviewer and the expiry of the pending action *)

\* (Against a remote that answers anything the record is not followed.)
Waiting == Running /\ remote # "any"

\* The reviewer decides on the version that is pending.
ReviewerDecides ==
    /\ Waiting
    /\ UNCHANGED beside
    /\ gw.status = "PENDING"
    /\ \/ gw' = [status |-> "APPROVED", version |-> gw.version,
                  last_decision |-> "approve"]
       \/ gw' = [status |-> "REJECTED", version |-> gw.version,
                  last_decision |-> "reject", last_decision_note |-> "too risky"]
       \/ gw' = [status |-> "REVISE_REQUESTED", version |-> gw.version,
                  last_decision |-> "revise",
                  last_decision_revise_input |-> "add greeting"]
    /\ past' = past \cup {gw}
    /\ UNCHANGED <<pc, mode, input, payload, resp, result, request_id, current_version, current_args,
                   kwargs, effective_timeout, deadline, now, decision_data,
                   proposal_resp, outcome, error, remote, calls, requests, polled, last_proposal, sent,
                   callback_args>>

\* The pending action expires.
RequestExpires ==
    /\ Waiting
    /\ UNCHANGED beside
    /\ gw.status \in {"PENDING", "REVISE_REQUESTED"}
    /\ gw' = [gw EXCEPT !.status = "EXPIRED"]
    /\ past' = past \cup {gw}
    /\ UNCHANGED <<pc, mode, input, payload, resp, result, request_id, current_version, current_args,
                   kwargs, effective_timeout, deadline, now, decision_data,
                   proposal_resp, outcome, error, remote, calls, requests, polled, last_proposal, sent,
                   callback_args>>

Next ==
    \/ Register
    \/ CallWait
    \/ FetchStatus
    \/ FetchFails
    \/ DeadlineExceeded
    \/ Sleep
    \/ Callback
    \/ CallbackFails
    \/ Submit
    \/ SubmitFails
    \/ CallSubmit
    \/ ReviewerDecides
    \/ RequestExpires

Spec == Init /\ [][Next]_vars

----------------------------------------------------------------------------
(* langgraph_adapter.py: wrap_tool_with_dharahil.wrapped_tool *)

\* The number of interrupts a run of the adapter is followed through.
MaxInterrupts == 3

\* The contexts passed as _dhara_context: none (the default {}), or one.
AdapterContexts == {<<>>} \cup Contexts

\* wrapped_tool(**kw, _dhara_context=ctx) as it is called: its locals, the
\* calls of the tool (the kwargs of each), and the calls it has made.
NewCall(kw, ctx) ==
    [pc |-> "start",
     tool_name |-> "send_email",
     args |-> kw,
     kwargs |-> kw,
     context |-> ctx,
     payload |-> Empty,
     result |-> Empty,
     request_id |-> None,
     current_version |-> 1,
     pause_payload |-> Empty,
     decision_payload |-> Empty,
     proposal |-> Empty,
     proposal_resp |-> Empty,
     tool |-> <<>>,
     error |-> Empty,
     calls |-> [before_execute |-> 0, interrupt |-> 0, submit_proposal_update |-> 0,
                get_request |-> 0]]

\* (The updated arguments taking the place of the kwargs, as an assignment.)
Update_Replace(kw, updated_args) == updated_args

\* kwargs.update(updated_args)
Update(kw, updated_args) == updated_args @@ kw

\* return await tool(*args, **kwargs)
RunTool(a) == [a EXCEPT !.pc = "returned", !.tool = Append(@, a.kwargs)]

\* raise RuntimeError(...)
Raise(a, why) == [a EXCEPT !.pc = "raised", !.error = [error |-> "RuntimeError"] @@ why]

\* decision_payload = interrupt(payload): the run is suspended on payload.
Interrupt(a, pause) ==
    [a EXCEPT !.pc = "suspended", !.pause_payload = pause, !.calls.interrupt = @ + 1]

\* The payload of the first interrupt.
ApprovalRequired(a) ==
    [request_id |-> a.request_id, tool_name |-> a.tool_name, context |-> a.context,
     expires_at |-> a.result.expires_at, type |-> "approval_required"]

\* The payload of the interrupt after a proposal that policy did not resolve.
RevisedProposalPending(a) ==
    [request_id |-> a.request_id, tool_name |-> a.tool_name, context |-> a.context,
     expires_at |-> a.result.expires_at, version |-> a.current_version,
     type |-> "revised_proposal_pending"]

\* The payload of the interrupt on a revise that brings no updated_args.
RevisionRequested(a, revise_input, revise_patch) ==
    [request_id |-> a.request_id, tool_name |-> a.tool_name, context |-> a.context,
     expires_at |-> a.result.expires_at, version |-> a.current_version,
     type |-> "revision_requested", revise_input |-> revise_input,
     revise_patch |-> revise_patch, current_args |-> a.kwargs]

\* The keyword arguments the adapter calls submit_proposal_update with.
AdapterProposal(a) ==
    [version_from |-> a.current_version,
     updated_tool_name |-> a.tool_name,
     updated_tool_args |-> a.kwargs,
     updated_tool_args_redacted |-> redact(a.kwargs),
     updated_context_summary |-> Get(a.context, "context_summary", ""),
     updated_risk_level |-> Get(a.context, "risk_level", "MEDIUM"),
     tags |-> Get(a.context, "tags", <<>>)]

\* submit_proposal_update raised.
Failure == [error |-> "HTTPError", call |-> "submit_proposal_update"]

\* (The DENY verdict not tested: the run goes on to ask for approval.)
wrapped_tool_DenyWaits(a, answer) ==
    LET r == before_execute(answer)
        called == [a EXCEPT !.calls.before_execute = @ + 1,
                            !.payload = RegisterPayload(a.tool_name, a.kwargs, a.context)]
    IN  IF "error" \in DOMAIN r
        THEN [called EXCEPT !.pc = "raised", !.error = r]
        ELSE IF r.action = "ALLOW"
        THEN RunTool([called EXCEPT !.result = r])
        ELSE LET waiting == [called EXCEPT !.result = r, !.request_id = r.request_id,
                                           !.current_version = 1]
             IN  Interrupt(waiting, ApprovalRequired(waiting))

\* wrapped_tool from its call to its first interrupt, return or raise, the
\* registration being answered with `answer`.
wrapped_tool(a, answer) ==
    LET r == before_execute(answer)
        called == [a EXCEPT !.calls.before_execute = @ + 1,
                            !.payload = RegisterPayload(a.tool_name, a.kwargs, a.context)]
    IN  IF "error" \in DOMAIN r
        THEN [called EXCEPT !.pc = "raised", !.error = r]
        ELSE IF r.action = "ALLOW"
        THEN RunTool([called EXCEPT !.result = r])
        ELSE IF r.action = "DENY"
        THEN Raise([called EXCEPT !.result = r],
                   [message |-> "denied", reason |-> r.reason])
        ELSE LET waiting == [called EXCEPT !.result = r, !.request_id = r.request_id,
                                           !.current_version = 1]
             IN  Interrupt(waiting, ApprovalRequired(waiting))

\* (The interrupt after a proposal built before the answer's version is
\* adopted.)
Resubmit_StaleVersion(a, updated_args, answer) ==
    LET updated == [a EXCEPT !.kwargs = Update(a.kwargs, updated_args)]
        submitted == [updated EXCEPT !.proposal = AdapterProposal(updated),
                                     !.calls.submit_proposal_update = @ + 1]
    IN  IF "error" \in DOMAIN answer
        THEN [submitted EXCEPT !.pc = "raised", !.error = answer]
        ELSE LET answered ==
                     [submitted EXCEPT !.proposal_resp = answer,
                         !.current_version = Get(answer, "version", a.current_version + 1)]
                 new_status == Get(answer, "status", None)
             IN  IF new_status = "AUTO_ALLOWED" THEN RunTool(answered)
                 ELSE IF new_status = "AUTO_DENIED"
                 THEN Raise(answered, [message |-> "policy auto-denied"])
                 ELSE Interrupt(answered, RevisedProposalPending(submitted))

\* (The answer's status not looked at: the adapter always suspends again.)
Resubmit_NoShortCircuit(a, updated_args, answer) ==
    LET updated == [a EXCEPT !.kwargs = Update(a.kwargs, updated_args)]
        submitted == [updated EXCEPT !.proposal = AdapterProposal(updated),
                                     !.calls.submit_proposal_update = @ + 1]
    IN  IF "error" \in DOMAIN answer
        THEN [submitted EXCEPT !.pc = "raised", !.error = answer]
        ELSE LET answered ==
                     [submitted EXCEPT !.proposal_resp = answer,
                         !.current_version = Get(answer, "version", a.current_version + 1)]
             IN  Interrupt(answered, RevisedProposalPending(answered))

\* The revise branch with updated_args: the proposal is submitted and answered
\* with `answer` (or fails), then the tool runs, the adapter raises, or it
\* suspends again.
Resubmit(a, updated_args, answer) ==
    LET updated == [a EXCEPT !.kwargs = Update(a.kwargs, updated_args)]
        submitted == [updated EXCEPT !.proposal = AdapterProposal(updated),
                                     !.calls.submit_proposal_update = @ + 1]
    IN  IF "error" \in DOMAIN answer
        THEN [submitted EXCEPT !.pc = "raised", !.error = answer]
        ELSE LET answered ==
                     [submitted EXCEPT !.proposal_resp = answer,
                         !.current_version = Get(answer, "version", a.current_version + 1)]
                 new_status == Get(answer, "status", None)
             IN  IF new_status = "AUTO_ALLOWED" THEN RunTool(answered)
                 ELSE IF new_status = "AUTO_DENIED"
                 THEN Raise(answered, [message |-> "policy auto-denied"])
                 ELSE Interrupt(answered, RevisedProposalPending(answered))

\* (The revise branch without its test of updated_args: the kwargs as they
\* are get submitted.)
resume_ReviseAlwaysSubmits(a, decision_payload, answer) ==
    LET decision == Get(decision_payload, "decision", None)
        updated_args == Get(decision_payload, "updated_args", Empty)
        resumed == [a EXCEPT !.decision_payload = decision_payload]
    IN  CASE decision = "approve" ->
                 IF DOMAIN updated_args # {}
                 THEN RunTool([resumed EXCEPT !.kwargs = Update(a.kwargs, updated_args)])
                 ELSE RunTool(resumed)
          [] decision = "reject" ->
                 Raise(resumed, [message |-> "rejected by human",
                                 note |-> Get(decision_payload, "note", None)])
          [] decision = "revise" ->
                 Resubmit(resumed, updated_args, answer)
          [] OTHER ->
                 Raise(resumed, [message |-> "Invalid decision", decision |-> decision])

\* (A decision that is none of approve, reject, revise taken for an approve.)
resume_InvalidApproves(a, decision_payload, answer) ==
    LET decision == Get(decision_payload, "decision", None)
        updated_args == Get(decision_payload, "updated_args", Empty)
        resumed == [a EXCEPT !.decision_payload = decision_payload]
    IN  CASE decision = "approve" ->
                 IF DOMAIN updated_args # {}
                 THEN RunTool([resumed EXCEPT !.kwargs = Update(a.kwargs, updated_args)])
                 ELSE RunTool(resumed)
          [] decision = "reject" ->
                 Raise(resumed, [message |-> "rejected by human",
                                 note |-> Get(decision_payload, "note", None)])
          [] decision = "revise" ->
                 IF DOMAIN updated_args # {}
                 THEN Resubmit(resumed, updated_args, answer)
                 ELSE Interrupt(resumed,
                                RevisionRequested(resumed,
                                    Get(decision_payload, "revise_input", ""),
                                    Get(decision_payload, "revise_patch", Empty)))
          [] OTHER -> RunTool(resumed)

\* One turn of the loop of wrapped_tool: from the resume with decision_payload
\* to the next interrupt, return or raise.
resume(a, decision_payload, answer) ==
    LET decision == Get(decision_payload, "decision", None)
        updated_args == Get(decision_payload, "updated_args", Empty)
        resumed == [a EXCEPT !.decision_payload = decision_payload]
    IN  CASE decision = "approve" ->
                 IF DOMAIN updated_args # {}
                 THEN RunTool([resumed EXCEPT !.kwargs = Update(a.kwargs, updated_args)])
                 ELSE RunTool(resumed)
          [] decision = "reject" ->
                 Raise(resumed, [message |-> "rejected by human",
                                 note |-> Get(decision_payload, "note", None)])
          [] decision = "revise" ->
                 IF DOMAIN updated_args # {}
                 THEN Resubmit(resumed, updated_args, answer)
                 ELSE Interrupt(resumed,
                                RevisionRequested(resumed,
                                    Get(decision_payload, "revise_input", ""),
                                    Get(decision_payload, "revise_patch", Empty)))
          [] OTHER ->
                 Raise(resumed, [message |-> "Invalid decision", decision |-> decision])

\* The kwargs of the calls explored.
AdapterArgs ==
    {[text |-> <<"h", "e", "l", "l", "o">>],
     [text |-> <<"o", "k">>, Token |-> <<"s", "3", "c", "r", "3", "t">>]}

\* updated_args as a resume payload carries it: empty, or one or all fields.
UpdatedArgs ==
    {Empty,
     [text |-> <<"h", "e", "l", "l", "o", " ", "-", " ", "r", "e", "v", "i", "s", "e", "d">>],
     [text |-> <<"o", "k">>, Token |-> <<"s", "3", "c", "r", "3", "t">>]}

\* The payloads the orchestrator resumes the run with.
ResumePayloads ==
    LET WithArgs(S) == S \cup {d @@ [updated_args |-> u] : d \in S, u \in UpdatedArgs}
        Approve == WithArgs({[decision |-> "approve"]})
        Reject == {[decision |-> "reject"], [decision |-> "reject", note |-> "too risky"]}
        Revise == WithArgs({[decision |-> "revise"],
                            [decision |-> "revise", revise_input |-> "add greeting",
                             revise_patch |-> [text |-> <<"h", "i">>]]})
        Invalid == {Empty, [decision |-> "escalate"]}
    IN  Approve \cup Reject \cup Revise \cup Invalid

\* wrapped_tool is called.
AdapterCall(answer) ==
    /\ DOMAIN adapter # {}
    /\ adapter.pc = "start"
    /\ adapter' = wrapped_tool(adapter, answer)
    /\ UNCHANGED <<client_vars, redaction, parked>>

\* The orchestrator resumes the suspended run.
AdapterResume(decision_payload, answer) ==
    /\ DOMAIN adapter # {}
    /\ adapter.pc = "suspended"
    /\ LET a == resume(adapter, decision_payload, answer)
       IN  /\ a.calls.interrupt <= MaxInterrupts
           /\ a.calls.submit_proposal_update <= Rounds(a.args)
           /\ adapter' = a
    /\ UNCHANGED <<client_vars, redaction, parked>>

\* The adapter alone: any answer of the gateway, any payload of the
\* orchestrator.
Called == \E answer \in RegisterResponses : AdapterCall(answer)

\* A payload on which the adapter submits a proposal: only there does the
\* gateway's answer matter.
Submits(decision_payload) ==
    /\ Get(decision_payload, "decision", None) = "revise"
    /\ DOMAIN Get(decision_payload, "updated_args", Empty) # {}

Resumed ==
    \E decision_payload \in ResumePayloads :
        \E answer \in (IF Submits(decision_payload)
                       THEN ProposalResponses \cup {Failure} ELSE {Failure}) :
            AdapterResume(decision_payload, answer)

AdapterInit ==
    /\ ClientInit
    /\ remote = "current"
    /\ input = [tool_name |-> "send_email", tool_args |-> [text |-> <<"h", "e", "l", "l", "o">>],
                context |-> [context_summary |-> "test", risk_level |-> "LOW", tags |-> <<>>],
                on_revise |-> TRUE, poll_interval_seconds |-> 4]
    /\ adapter \in {NewCall(kw, ctx) : kw \in AdapterArgs, ctx \in AdapterContexts}
    /\ redaction = Empty
    /\ parked = Empty

AdapterNext == Called \/ Resumed

AdapterSpec == AdapterInit /\ [][AdapterNext]_vars

----------------------------------------------------------------------------
(* redaction.py: redact, one iteration of its loop at a time *)

\* The field names of the explored mappings: a secret name, one that differs
\* from a secret name in case only, and one that merely contains one.
RedactKeys == {"password", "Token", "auth_token"}

\* The explored values: strings of 6 and of exactly 12 alphanumerics, of 13
\* alphanumerics, of 13 characters ending in a run of 12, of 14 characters
\* with runs of 6 and 7, free text of 15 characters, and an int, a list and
\* None.
RedactValues ==
    {<<"s", "3", "c", "r", "3", "t">>,
     <<"0", "1", "2", "3", "4", "5", "6", "7", "8", "9", "a", "b">>,
     <<"0", "1", "2", "3", "4", "5", "6", "7", "8", "9", "A", "B", "C">>,
     <<"-", "0", "1", "2", "3", "4", "5", "6", "7", "8", "9", "a", "b">>,
     <<"0", "1", "2", "3", "4", "5", "-", "6", "7", "8", "9", "a", "b", "c">>,
     <<"h", "e", "l", "l", "o", " ", "-", " ", "r", "e", "v", "i", "s", "e", "d">>,
     <<"int", "1234567890123">>,
     <<"list", "0123456789abc">>,
     <<"NoneType">>}

\* The mappings redact is called with.
RedactInputs == UNION {[keys -> RedactValues] : keys \in SUBSET RedactKeys}

\* data.items(): the keys of the mapping in the order they were inserted.
Items(data) ==
    {order \in [1..Cardinality(DOMAIN data) -> DOMAIN data] :
        \A i, j \in DOMAIN order : order[i] = order[j] => i = j}

\* redact(data) up to the loop; `passed` is the caller's mapping as it was
\* when the call was made.
NewRedaction(data, order) ==
    [pc |-> "loop", passed |-> data, data |-> data, items |-> order,
     redacted |-> Empty, report |-> [fields |-> <<>>]]

\* for key, value in data.items(): ...
RedactItem ==
    /\ DOMAIN redaction # {}
    /\ redaction.pc = "loop"
    /\ Len(redaction.items) > 0
    /\ LET key == Head(redaction.items)
           item == redact_item(key, redaction.data[key])
       IN  redaction' = [redaction EXCEPT
               !.items = Tail(@),
               !.redacted = (key :> item.value) @@ @,
               !.report = [fields |-> @.fields \o item.fields]]
    /\ UNCHANGED <<client_vars, adapter, parked>>

\* return redacted, report
RedactReturn ==
    /\ DOMAIN redaction # {}
    /\ redaction.pc = "loop"
    /\ Len(redaction.items) = 0
    /\ redaction' = [redaction EXCEPT !.pc = "returned"]
    /\ UNCHANGED <<client_vars, adapter, parked>>

RedactInit ==
    /\ ClientInit
    /\ remote = "current"
    /\ input = [tool_name |-> "send_email", tool_args |-> [text |-> <<"h", "e", "l", "l", "o">>],
                context |-> [context_summary |-> "test", risk_level |-> "LOW", tags |-> <<>>],
                on_revise |-> TRUE, poll_interval_seconds |-> 4]
    /\ adapter = Empty
    /\ redaction \in UNION {{NewRedaction(data, order) : order \in Items(data)} :
                                data \in RedactInputs}
    /\ parked = Empty

RedactNext == RedactItem \/ RedactReturn

RedactSpec == RedactInit /\ [][RedactNext]_vars

----------------------------------------------------------------------------
(* One run followed through a second proposal *)

\* A run of the engine against a gateway that asks for approval, answers a
\* proposal with any body and a fetch with any snapshot that is not returned
\* or with a reviewer's request for revision, or a run of the adapter, each on
\* DeepArgs.
RoundsInputs ==
    [tool_name : {"send_email"}, tool_args : {DeepArgs}, context : Contexts,
     on_revise : {TRUE}, poll_interval_seconds : {300}]

RoundsInit ==
    /\ ClientInit
    /\ remote = "any"
    /\ input \in RoundsInputs
    /\ adapter \in {Empty} \cup {NewCall(DeepArgs, ctx) : ctx \in Contexts}
    /\ redaction = Empty
    /\ parked = Empty

\* The run is the engine's.
EngineRuns == DOMAIN adapter = {}

\* The registration is answered with approval required.
RegisterPending ==
    /\ Register
    /\ resp' = [status_code |-> 200, data |-> [request_id |-> RequestId]]

\* A fetch that is not returned, or that returns a request for revision.
FetchRevise ==
    /\ FetchStatus
    /\ DOMAIN decision_data' # {}
          => /\ decision_data'.status = "REVISE_REQUESTED"
             /\ decision_data'.last_decision = "revise"

RoundsNext ==
    \/ EngineRuns /\ RegisterPending
    \/ EngineRuns /\ FetchRevise
    \/ EngineRuns /\ Sleep
    \/ EngineRuns /\ DeadlineExceeded
    \/ EngineRuns /\ Callback
    \/ EngineRuns /\ Submit
    \/ EngineRuns /\ SubmitFails
    \/ Called
    \/ Resumed

RoundsSpec == RoundsInit /\ [][RoundsNext]_vars

\* The runs of the engine among them.
EngineRoundsInit == RoundsInit /\ EngineRuns

EngineRoundsNext ==
    \/ RegisterPending
    \/ FetchRevise
    \/ Sleep
    \/ DeadlineExceeded
    \/ Callback
    \/ Submit
    \/ SubmitFails

\* The runs of the engine when every remote call and every callback
\* invocation returns and the sleeps end: a step that can be taken is taken.
RoundsFairSpec ==
    EngineRoundsInit /\ [][EngineRoundsNext]_vars /\ WF_vars(EngineRoundsNext)

----------------------------------------------------------------------------
(* Properties *)

\* The running or last wait of the call has returned a snapshot.
Returned == DOMAIN decision_data # {}

InLoop == mode = "loop"

\* The gateway's answers are its own records, current or cached.
GatewayAnswers == remote \in {"current", "cached"}

\* Once run_approval_loop has returned, nothing more is called.
DoneIsFinal ==
    [][pc = "done" => (pc' = "done" /\ calls' = calls /\ outcome' = outcome)]_vars

\* C1: in run_approval_loop, once current_version is v > 1, a fetched snapshot
\* whose reported version is below v is never acted on: the wait called with
\* after_version = v never returns it (so it reaches neither the callback nor
\* an outcome).  Stated for a gateway that answers with its own records,
\* current or cached.
C1_LowerVersionNeverActedOn ==
    (InLoop /\ GatewayAnswers /\ Returned /\ "after_version" \in DOMAIN kwargs
        /\ "version" \in DOMAIN decision_data)
    => decision_data.version >= kwargs.after_version

\* C2: a wait called with after_version = v never returns a snapshot that has
\* a decision, status REVISE_REQUESTED or PENDING and version >= v; each such
\* snapshot costs one fetch and the wait goes on, so that a wait that returns
\* after k snapshots of that kind (and j with no decision on a waiting status)
\* has made exactly k + j + 1 fetches.
C2_StaleSnapshotsSkipped ==
    /\ Returned => ~StaleOnArrival(decision_data, kwargs)
    /\ Returned => polled.fetched = polled.stale + polled.undecided + 1
    /\ pc \in {"poll", "sleep"} => polled.fetched = polled.stale + polled.undecided

\* C2 witness: after_version = 2, two stale REVISE_REQUESTED/PENDING snapshots
\* skipped, the third fetch returned APPROVED at version 2.
C2_Witness ==
    /\ Returned
    /\ "after_version" \in DOMAIN kwargs
    /\ kwargs.after_version = 2
    /\ polled = [fetched |-> 3, stale |-> 2, undecided |-> 0, terminal |-> 1]
    /\ decision_data.status = "APPROVED"
    /\ Get(decision_data, "version", 0) = 2

\* C3: with a callback configured and a gateway whose answers are current,
\* each revise decision the reviewer takes on the version most recently
\* submitted is negotiated (one callback invocation and one proposal per
\* decision): a fetch that reads such a decision hands it to the callback.
C3_EveryReviseNegotiated ==
    [][(/\ InLoop
        /\ remote = "current"
        /\ input.on_revise
        /\ gw.status = "REVISE_REQUESTED"
        /\ gw.last_decision = "revise"
        /\ gw.version = current_version
        /\ calls'.get_request = calls.get_request + 1
        /\ pc' # "raised")
       => pc' = "callback"]_vars

\* C4: current_version is 1 until a proposal is answered; each answer sets it
\* to the version the answer carries (the old one plus 1 if it carries none);
\* with a gateway that answers with its own records that version is strictly
\* higher than before, and the version an outcome reports is the version of
\* the last proposal's answer.
C4_VersionFollowsProposals ==
    /\ [](InLoop /\ calls.submit_proposal_update = 0 => current_version = 1)
    /\ [][(calls'.submit_proposal_update = calls.submit_proposal_update + 1
            /\ mode' = "loop" /\ pc' # "raised")
           => /\ current_version' = Get(proposal_resp', "version", current_version + 1)
              /\ GatewayAnswers =>
                    /\ "version" \in DOMAIN proposal_resp'
                    /\ current_version' > current_version]_vars
    /\ [](InLoop /\ GatewayAnswers /\ pc = "done" /\ "version" \in DOMAIN outcome
             /\ calls.submit_proposal_update > 0
           => outcome.version = proposal_resp.version /\ outcome.version = current_version)

\* C4 witness: a revision was accepted and the run ended APPROVED at version 2.
C4_Witness ==
    /\ InLoop /\ GatewayAnswers /\ pc = "done"
    /\ calls.submit_proposal_update = 1
    /\ outcome.action = "APPROVED"
    /\ outcome.version = 2
    /\ proposal_resp.version = 2

\* C5: an ALLOW or DENY verdict ends run_approval_loop at once, with ALLOW and
\* the caller's tool_args or DENY and the reason, and nothing was fetched,
\* no callback called and no proposal submitted.
C5_ImmediateVerdict ==
    (InLoop /\ DOMAIN result # {} /\ result.action \in {"ALLOW", "DENY"})
    => /\ pc = "done"
       /\ calls = NoCalls
       /\ outcome = IF result.action = "ALLOW"
                     THEN [action |-> "ALLOW", tool_args |-> input.tool_args]
                     ELSE [action |-> "DENY", reason |-> result.reason]

C5_Witness ==
    /\ InLoop /\ pc = "done" /\ DOMAIN result # {}
    /\ result.action = "DENY"
    /\ outcome.action = "DENY"

\* C6: when the answer to a proposal carries AUTO_ALLOWED or AUTO_DENIED the
\* run ends with that outcome (AUTO_ALLOWED with the revised arguments), and
\* nothing is fetched, called or submitted afterwards.
C6_PolicyShortCircuit ==
    /\ []((InLoop /\ DOMAIN proposal_resp # {}
            /\ proposal_resp.status \in {"AUTO_ALLOWED", "AUTO_DENIED"})
           => /\ pc = "done"
              /\ outcome.action = proposal_resp.status
              /\ outcome.request_id = request_id
              /\ proposal_resp.status = "AUTO_ALLOWED"
                    => /\ outcome.tool_args = callback_args
                       /\ outcome.tool_args = last_proposal.updated_tool_args)
    /\ DoneIsFinal

C6_Witness ==
    /\ InLoop /\ pc = "done"
    /\ DOMAIN proposal_resp # {}
    /\ proposal_resp.status = "AUTO_DENIED"
    /\ outcome.action = "AUTO_DENIED"
    /\ calls.get_request = 1

\* C7 as claimed: a returned snapshot's terminal status decides the outcome,
\* whatever its last_decision.
C7_StatusDecidesOutcome ==
    (InLoop /\ Returned
        /\ decision_data.status \in {"REJECTED", "AUTO_ALLOWED", "AUTO_DENIED", "EXPIRED"})
    => /\ pc = "done"
       /\ outcome.action = decision_data.status

\* C7 as amended: status REJECTED yields REJECTED with the note unless
\* last_decision is approve; status AUTO_ALLOWED, AUTO_DENIED or EXPIRED
\* yields that outcome unless last_decision is approve or reject.
C7_StatusDecidesUnlessDecision ==
    /\ (InLoop /\ Returned /\ decision_data.status = "REJECTED"
            /\ decision_data.last_decision # "approve")
       => /\ pc = "done"
          /\ outcome.action = "REJECTED"
          /\ outcome.note = Get(decision_data, "last_decision_note", "")
    /\ (InLoop /\ Returned
            /\ decision_data.status \in {"AUTO_ALLOWED", "AUTO_DENIED", "EXPIRED"}
            /\ decision_data.last_decision \notin {"approve", "reject"})
       => /\ pc = "done"
          /\ outcome.action = decision_data.status

C7_Witness ==
    /\ InLoop /\ Returned /\ pc = "done"
    /\ decision_data.status = "AUTO_DENIED"
    /\ decision_data.last_decision = "revise"
    /\ outcome.action = "AUTO_DENIED"

\* C8: an APPROVED outcome carries the caller's arguments if no revision was
\* made, and else the arguments the callback returned last, which are those
\* of the last proposal.
C8_ApprovedCarriesCurrentArgs ==
    (InLoop /\ pc = "done" /\ outcome.action = "APPROVED")
    => /\ calls.on_revise = 0 => outcome.tool_args = input.tool_args
       /\ calls.on_revise > 0 =>
             /\ outcome.tool_args = callback_args
             /\ outcome.tool_args = last_proposal.updated_tool_args

C8_Witness ==
    /\ InLoop /\ pc = "done" /\ outcome.action = "APPROVED"
    /\ calls.on_revise = 1
    /\ calls.submit_proposal_update = 1
    /\ outcome.tool_args # input.tool_args

\* A snapshot that holds a revise decision: last_decision is revise or the
\* status is REVISE_REQUESTED, and neither an approve or reject decision nor
\* a terminal status stands beside it.
ReviseDecision(d) ==
    /\ d.last_decision = "revise" \/ d.status = "REVISE_REQUESTED"
    /\ d.last_decision \notin {"approve", "reject"}
    /\ d.status \notin {"APPROVED", "REJECTED", "AUTO_ALLOWED", "AUTO_DENIED", "EXPIRED"}

\* C9: with no callback a revise decision ends the run with REVISE_REQUESTED,
\* the reviewer's instruction, the current arguments and version; no proposal
\* is submitted and nothing is fetched afterwards.
C9_ReviseWithoutCallback ==
    /\ []((InLoop /\ ~input.on_revise /\ Returned /\ ReviseDecision(decision_data))
           => /\ pc = "done"
              /\ outcome = [action |-> "REVISE_REQUESTED",
                             request_id |-> request_id,
                             revise_input |->
                                 Get(decision_data, "last_decision_revise_input", ""),
                             current_args |-> input.tool_args,
                             version |-> 1]
              /\ current_args = input.tool_args
              /\ current_version = 1
              /\ calls.on_revise = 0
              /\ calls.submit_proposal_update = 0)
    /\ DoneIsFinal

C9_Witness ==
    /\ InLoop /\ ~input.on_revise /\ pc = "done"
    /\ outcome.action = "REVISE_REQUESTED"
    /\ outcome.revise_input = "add greeting"
    /\ calls.get_request = 2

\* C10: a wait whose fetches all find no decision on a waiting status never
\* returns a snapshot; at the loop test after the deadline it raises the
\* timeout failure, which names the request id and the effective timeout;
\* no fetch starts once the deadline has passed.
C10_PendingUntilTimeout ==
    /\ [](polled.fetched = polled.undecided => ~Returned)
    /\ []((DOMAIN error # {} /\ error.error = "TimeoutError")
           => /\ error.request_id = kwargs.request_id
              /\ error.seconds = effective_timeout
              /\ now >= deadline)
    /\ [][calls'.get_request # calls.get_request => now < deadline]_vars
    /\ [][(pc = "poll" /\ now >= deadline /\ pc' # pc)
           => /\ pc' = "raised"
              /\ error' = [error |-> "TimeoutError", request_id |-> kwargs.request_id,
                            seconds |-> effective_timeout]]_vars

\* C10 witness: the gateway's record stayed PENDING with no decision, two
\* fetches found it so, and the wait raised at the deadline itself.
C10_Witness ==
    /\ remote = "current"
    /\ gw = NewPendingAction
    /\ pc = "raised"
    /\ DOMAIN error # {} /\ error.error = "TimeoutError"
    /\ polled = [fetched |-> 2, stale |-> 0, undecided |-> 2, terminal |-> 0]
    /\ now = deadline

\* C11: a fetched snapshot whose status is neither PENDING nor REVISE_REQUESTED
\* is returned by the wait at once: the fetch that reads it is the wait's last,
\* the snapshot returned is that one, and a wait that raises the timeout
\* failure has fetched no such snapshot.
C11_TerminalSnapshotReturned ==
    /\ polled.terminal > 0
          => /\ Returned
             /\ Terminal(decision_data)
             /\ polled.terminal = 1
             /\ pc \notin {"poll", "sleep"}
    /\ (pc = "raised" /\ DOMAIN error # {} /\ error.error = "TimeoutError")
          => polled.terminal = 0

\* C11 witness: a wait with after_version = 2 slept on an undecided snapshot
\* and then returned an EXPIRED snapshot that still carries the old revise.
C11_Witness ==
    /\ mode = "wait"
    /\ pc = "done"
    /\ "after_version" \in DOMAIN kwargs
    /\ polled.fetched = 2
    /\ polled.terminal = 1
    /\ outcome.status = "EXPIRED"
    /\ outcome.last_decision = "revise"

\* C12: the effective timeout of a wait is the explicit timeout_seconds when
\* one is passed, whatever expires_at is; else the time left until a parseable
\* expires_at (with the buffer and the minimum); else, for an expires_at that
\* is absent, empty or not a timestamp, 600; and the computation never raises.
C12_TimeoutPriority ==
    DOMAIN kwargs # {}
    => /\ ~(DOMAIN error # {} /\ error.error = "AttributeError")
       /\ effective_timeout =
             IF "timeout_seconds" \in DOMAIN kwargs
             THEN kwargs.timeout_seconds
             ELSE IF kwargs.expires_at.kind = "iso"
             THEN Max(IntRemaining(kwargs.expires_at, deadline - effective_timeout)
                         + ExpiryBuffer, MinTimeout)
             ELSE DefaultTimeout

\* The instant a running or finished wait was called at.
CalledAt == deadline - effective_timeout

\* The wait computed its timeout from expires_at.
FromExpiry ==
    /\ DOMAIN kwargs # {}
    /\ "timeout_seconds" \notin DOMAIN kwargs
    /\ kwargs.expires_at.kind = "iso"

\* C13: a timeout derived from expires_at is max(r + 5, 10), r being the whole
\* units left until expires_at (rounded down, or toward zero: both give the
\* same timeout); it is never below 10, and is exactly 10 for an expires_at
\* 30 units (or 29 and a half) in the past.
C13_TimeoutFromExpiry ==
    FromExpiry
    => LET r == kwargs.expires_at.t - CalledAt
           toward_zero == IF kwargs.expires_at.half /\ r < 0 THEN r + 1 ELSE r
       IN  /\ effective_timeout = (IF r + 5 >= 10 THEN r + 5 ELSE 10)
           /\ effective_timeout = (IF toward_zero + 5 >= 10 THEN toward_zero + 5 ELSE 10)
           /\ effective_timeout >= 10
           /\ r = -30 => effective_timeout = 10

\* C13 witness: a wait called 30 units (less a half) after expires_at runs
\* with the minimum of 10.
C13_Witness ==
    /\ FromExpiry
    /\ kwargs.expires_at.t - CalledAt = -30
    /\ kwargs.expires_at.half
    /\ effective_timeout = 10
    /\ pc = "poll"

\* A returned snapshot that no branch of run_approval_loop recognises: its
\* last_decision is none of approve, reject, revise and its status none of
\* APPROVED, REJECTED, AUTO_ALLOWED, AUTO_DENIED, EXPIRED, REVISE_REQUESTED.
Unrecognised(d) ==
    /\ Get(d, "last_decision", None) \notin {"approve", "reject", "revise"}
    /\ Get(d, "status", "") \notin {"APPROVED", "REJECTED", "AUTO_ALLOWED",
                                     "AUTO_DENIED", "EXPIRED", "REVISE_REQUESTED"}

\* C14 as claimed: an unrecognised snapshot ends the run with an outcome whose
\* raw field is the snapshot and whose tag is the snapshot's status string.
C14_UnknownTaggedByStatus ==
    (InLoop /\ Returned /\ Unrecognised(decision_data))
    => /\ pc = "done"
       /\ error = Empty
       /\ outcome.raw = decision_data
       /\ outcome.action = Get(decision_data, "status", "")

\* C14 as amended: the tag is the snapshot's status string when that is not
\* empty, and UNKNOWN when it is; the raw field is the snapshot, the run is
\* over and nothing was raised.
C14_UnknownTaggedByStatusOrUnknown ==
    (InLoop /\ Returned /\ Unrecognised(decision_data))
    => /\ pc = "done"
       /\ error = Empty
       /\ outcome.raw = decision_data
       /\ outcome.request_id = request_id
       /\ outcome.action = (IF Get(decision_data, "status", "") = ""
                             THEN "UNKNOWN" ELSE decision_data.status)

\* C14 witness: a snapshot with status ON_HOLD and an escalate decision ended
\* the run with the tag ON_HOLD.
C14_Witness ==
    /\ InLoop /\ Returned /\ pc = "done"
    /\ decision_data.status = "ON_HOLD"
    /\ decision_data.last_decision = "escalate"
    /\ outcome.action = "ON_HOLD"
    /\ outcome.raw = decision_data

\* The tags of the outcomes run_approval_loop builds itself.
OutcomeTags ==
    {"ALLOW", "DENY", "APPROVED", "REJECTED", "AUTO_ALLOWED", "AUTO_DENIED",
     "EXPIRED", "REVISE_REQUESTED"}

\* The statuses of the pending action's state machine.
RecognisedStatuses ==
    {"PENDING", "REVISE_REQUESTED", "APPROVED", "REJECTED", "AUTO_ALLOWED",
     "AUTO_DENIED", "EXPIRED"}

\* C15: the tag of every outcome of run_approval_loop is one of the eight
\* outcome tags, or else the status string of the returned snapshot, which is
\* then none of the seven recognised statuses; in particular it is never
\* PENDING.  (Stated for the runs that wait on a request id; the tag UNKNOWN
\* that stands for an empty status is let pass, so that a violation is an
\* outcome tagged with a recognised status.)
C15_OutcomeTagNeverPending ==
    (InLoop /\ pc = "done" /\ request_id = RequestId)
    => \/ outcome.action \in OutcomeTags
       \/ /\ outcome.action # "PENDING"
          /\ outcome.action \notin RecognisedStatuses
          /\ \/ outcome.action = Get(decision_data, "status", "")
             \/ outcome.action = "UNKNOWN" /\ Get(decision_data, "status", "") = ""

\* before_execute has been answered.
Registered == DOMAIN resp # {}

\* C16: a registration answered with HTTP 400 yields the verdict DENY when the
\* detail text contains "DENY" and ALLOW otherwise, with the detail text as
\* the reason, and raises nothing.
C16_LegacyVerdict ==
    (Registered /\ resp.status_code = 400)
    => /\ error = Empty
       /\ pc # "raised"
       /\ result.reason = resp.detail
       /\ result.request_id = None
       /\ (\E i \in 1..Len(resp.detail) :
               /\ i + 3 <= Len(resp.detail)
               /\ resp.detail[i] = "D" /\ resp.detail[i + 1] = "E"
               /\ resp.detail[i + 2] = "N" /\ resp.detail[i + 3] = "Y")
            => result.action = "DENY"
       /\ ~(\E i \in 1..Len(resp.detail) :
               /\ i + 3 <= Len(resp.detail)
               /\ resp.detail[i] = "D" /\ resp.detail[i + 1] = "E"
               /\ resp.detail[i + 2] = "N" /\ resp.detail[i + 3] = "Y")
            => result.action = "ALLOW"

\* C16 witness: a 400 whose detail holds DENY inside other text was mapped to
\* DENY with that text as the reason.
C16_Witness ==
    /\ Registered
    /\ resp.status_code = 400
    /\ resp.detail = <<"x", " ", "D", "E", "N", "Y", "!">>
    /\ result.action = "DENY"
    /\ outcome = [action |-> "DENY", reason |-> resp.detail]

\* C17: for a 2xx answer to the registration, a (non-empty) action beside a
\* null or absent request_id yields the verdict the action names, ALLOW for
\* an action that names none, with no request id and no expires_at; a
\* request_id yields REQUIRE_APPROVAL with that id and the answer's
\* expires_at, whether an action stands beside it or not; and an ALLOW or DENY
\* verdict never carries an expires_at.
C17_VerdictOfAnswer ==
    (Registered /\ resp.status_code = 200)
    => LET data == resp.data
           named == Get(data, "action", "") # ""
           no_id == Get(data, "request_id", None) = None
       IN  /\ (named /\ no_id)
                => /\ DOMAIN result # {}
                   /\ result.action = (IF data.action \in {"ALLOW", "DENY", "REQUIRE_APPROVAL"}
                                         THEN data.action ELSE "ALLOW")
                   /\ result.request_id = None
                   /\ result.expires_at = [kind |-> "none"]
           /\ ~no_id
                => /\ DOMAIN result # {}
                   /\ result.action = "REQUIRE_APPROVAL"
                   /\ result.request_id = data.request_id
                   /\ result.expires_at =
                         (IF "expires_at" \in DOMAIN data THEN data.expires_at
                          ELSE [kind |-> "none"])
           /\ (DOMAIN result # {} /\ result.action \in {"ALLOW", "DENY"})
                => result.expires_at = [kind |-> "none"]

\* C17 witness: an answer naming the action MAYBE with a null request_id was
\* mapped to ALLOW, and run_approval_loop returned at once.
C17_Witness ==
    /\ Registered
    /\ resp.status_code = 200
    /\ resp.data = [action |-> "MAYBE", request_id |-> None]
    /\ result.action = "ALLOW"
    /\ pc = "done"

\* before_execute has posted its payload.
Posted == DOMAIN payload # {}

\* C18: when the caller's context carries no idempotency key, be it a plain
\* mapping or a ToolContext, the idempotency_key of the registration payload
\* is the run identifier of the context.
C18_IdempotencyKeyDefault ==
    (Posted /\ "idempotency_key" \notin DOMAIN input.context)
    => /\ payload.idempotency_key = Get(input.context, "run_id", "run")
       /\ payload.idempotency_key = payload.run_id

\* The fields every proposal body carries.
ProposalFields ==
    {"version_from", "updated_tool_name", "updated_tool_args",
     "updated_tool_args_redacted", "updated_context_summary", "updated_risk_level",
     "tags"}

\* C19: the body submit_proposal_update posts has the key display_hints
\* exactly when the caller passed a display_hints that is not None (an empty
\* mapping included), with the passed mapping as its value; the seven other
\* fields are the values passed and there is no further key; and a direct
\* call returns the answer's body as it is.
C19_ProposalPayload ==
    DOMAIN sent # {}
    => LET display_hints == Get(last_proposal, "display_hints", [kind |-> "none"])
       IN  /\ ("display_hints" \in DOMAIN sent) <=> (display_hints.kind # "none")
           /\ "display_hints" \in DOMAIN sent => sent.display_hints = display_hints.value
           /\ DOMAIN sent \subseteq ProposalFields \cup {"display_hints"}
           /\ \A k \in ProposalFields : k \in DOMAIN sent /\ sent[k] = last_proposal[k]
           /\ (mode = "submit" /\ pc = "done") => outcome = proposal_resp

\* C19 witness: a direct call that passed an empty mapping as display_hints
\* posted it, and returned the answer {status: PENDING, version: 2}.
C19_Witness ==
    /\ mode = "submit" /\ pc = "done"
    /\ "display_hints" \in DOMAIN sent
    /\ DOMAIN sent.display_hints = {}
    /\ sent.updated_tool_args_redacted = [text |-> <<"o", "k">>]
    /\ outcome = [status |-> "PENDING", version |-> 2]

\* C20: every call of a gateway operation issues exactly one HTTP request
\* (one registration per run, one GET per get_request, one POST per
\* submit_proposal_update, failed calls included); a failure of a fetch or a
\* submission ends the run with that failure; and after a failure no request
\* and no call is made.
C20_OneRequestNoRetry ==
    /\ [](/\ requests.status = calls.get_request
          /\ requests.proposal = calls.submit_proposal_update
          /\ requests.register = (IF InLoop /\ pc # "start" THEN 1 ELSE 0))
    /\ [][(DOMAIN error' # {} /\ error' # error
             /\ error'.error \in {"HTTPError", "HTTPStatusError"})
           => /\ pc' = "raised"
              /\ requests'.register + requests'.status + requests'.proposal
                    = requests.register + requests.status + requests.proposal + 1]_vars
    /\ [][pc = "raised"
           => (pc' = "raised" /\ error' = error /\ requests' = requests
               /\ calls' = calls /\ outcome' = outcome)]_vars

\* C20 witness: a run registered, fetched a revise decision, called the
\* callback, and its proposal failed: three requests in all, and the failure
\* is what the run raised.
C20_Witness ==
    /\ InLoop /\ pc = "raised"
    /\ error = [error |-> "HTTPError", call |-> "submit_proposal_update"]
    /\ requests = [register |-> 1, status |-> 1, proposal |-> 1]
    /\ calls.on_revise = 1

\* The run raised what its revision callback raised.
CallbackRaised ==
    pc = "raised" /\ error = [error |-> "CallbackError", call |-> "on_revise"]

\* C21: a failure of the revision callback is what run_approval_loop raises,
\* as it is; the failing round submits no proposal (a proposal is only ever
\* sent with the arguments a callback returned), and after the failure
\* nothing is fetched, submitted or called.
C21_CallbackFailurePropagates ==
    /\ [](pc = "submit" => /\ DOMAIN callback_args # {}
                           /\ current_args = callback_args
                           /\ calls.on_revise = calls.submit_proposal_update + 1)
    /\ [][(pc = "callback" /\ pc' = "raised")
           => /\ error' = [error |-> "CallbackError", call |-> "on_revise"]
              /\ calls'.on_revise = calls.on_revise + 1
              /\ calls'.submit_proposal_update = calls.submit_proposal_update
              /\ requests' = requests
              /\ <<current_args, current_version, sent, last_proposal>>'
                    = <<current_args, current_version, sent, last_proposal>>]_vars
    /\ [](CallbackRaised => calls.submit_proposal_update = calls.on_revise - 1)
    /\ [][CallbackRaised
           => (CallbackRaised' /\ requests' = requests /\ calls' = calls
               /\ outcome' = outcome /\ sent' = sent)]_vars

\* C21 witness: the callback failed on the first revise decision: one fetch,
\* one callback call, no proposal, and the run raised the callback's failure.
C21_Witness ==
    /\ InLoop /\ CallbackRaised
    /\ calls = [get_request |-> 1, on_revise |-> 1, submit_proposal_update |-> 0]
    /\ requests = [register |-> 1, status |-> 1, proposal |-> 0]
    /\ DOMAIN sent = {}

----------------------------------------------------------------------------
(* The engine and the adapter side by side *)

\* One call of run_approval_loop and one of wrapped_tool with the same
\* arguments, against the same gateway: the adapter's registration gets the
\* answer the engine's got, the adapter is resumed with the decisions the
\* engine read (a revise carrying what the engine's callback returned), and
\* its proposals get the answers the engine's got.
EquivInputs ==
    [tool_name : {"send_email"}, tool_args : AdapterArgs, context : Contexts,
     on_revise : {TRUE}, poll_interval_seconds : {300}]

EquivInit ==
    /\ ClientInit
    /\ remote = "current"
    /\ input \in EquivInputs
    /\ adapter = NewCall(input.tool_args, input.context)
    /\ redaction = Empty
    /\ parked = Empty

\* The adapter has made as many proposals as the engine.
InStep == adapter.calls.submit_proposal_update = calls.submit_proposal_update

\* The engine's callback runs once the adapter has caught up.
NegotiateInStep == InStep /\ Callback

\* The adapter is called, and its registration answered as the engine's was.
Follow == Registered /\ AdapterCall(resp)

\* The resume payload of the decision the engine's last wait returned.
DecisionPayload(d) ==
    IF d.last_decision = "reject"
    THEN [decision |-> "reject", note |-> Get(d, "last_decision_note", "")]
    ELSE [decision |-> d.last_decision]

\* The adapter is resumed with the approve or reject the engine ended on.
FollowDecision ==
    /\ pc = "done"
    /\ Returned
    /\ InStep
    /\ decision_data.last_decision \in {"approve", "reject"}
    /\ AdapterResume(DecisionPayload(decision_data), Failure)

\* The adapter is resumed with the revise the engine negotiated: updated_args
\* is what the engine's callback returned, the proposal's answer the one the
\* engine's proposal got.
FollowRevision ==
    /\ calls.submit_proposal_update = adapter.calls.submit_proposal_update + 1
    /\ DOMAIN proposal_resp # {}
    /\ AdapterResume([decision |-> "revise", revise_input |-> "add greeting",
                      updated_args |-> callback_args], proposal_resp)

EquivNext ==
    \/ Register
    \/ FetchStatus
    \/ Sleep
    \/ DeadlineExceeded
    \/ NegotiateInStep
    \/ Submit
    \/ ReviewerDecides
    \/ RequestExpires
    \/ Follow
    \/ FollowDecision
    \/ FollowRevision

EquivSpec == EquivInit /\ [][EquivNext]_vars

----------------------------------------------------------------------------
(* Two negotiations on one client *)

\* Two calls of run_approval_loop on the same client, as coroutines of one
\* event loop: one runs, the other is suspended at an await with its locals;
\* at an await the loop may switch.  The locals of a call, and the gateway's
\* records of its pending action, go with the call; time and the gateway's way
\* of answering are common to both.
Frame ==
    [pc |-> pc,
     mode |-> mode,
     input |-> input,
     payload |-> payload,
     resp |-> resp,
     result |-> result,
     request_id |-> request_id,
     current_version |-> current_version,
     current_args |-> current_args,
     kwargs |-> kwargs,
     effective_timeout |-> effective_timeout,
     deadline |-> deadline,
     decision_data |-> decision_data,
     proposal_resp |-> proposal_resp,
     outcome |-> outcome,
     error |-> error,
     gw |-> gw,
     past |-> past,
     calls |-> calls,
     polled |-> polled,
     last_proposal |-> last_proposal,
     sent |-> sent,
     requests |-> requests,
     callback_args |-> callback_args]

\* The locals of a call of run_approval_loop(**i) that has not started.
NewFrame(i) ==
    [pc |-> "start", mode |-> "loop", input |-> i, payload |-> Empty, resp |-> Empty,
     result |-> Empty, request_id |-> None, current_version |-> 1,
     current_args |-> Empty, kwargs |-> Empty, effective_timeout |-> 0,
     deadline |-> 0, decision_data |-> Empty, proposal_resp |-> Empty,
     outcome |-> Empty, error |-> Empty, gw |-> NewPendingAction, past |-> {},
     calls |-> NoCalls, polled |-> NoPolls, last_proposal |-> Empty, sent |-> Empty,
     requests |-> NoRequests, callback_args |-> Empty]

\* (current_version kept on the client object: a switch leaves it where it is.)
Switch_VersionOnClient ==
    /\ DOMAIN parked # {}
    /\ parked' = [Frame EXCEPT !.current_version = parked.current_version]
    /\ pc' = parked.pc
    /\ mode' = parked.mode
    /\ input' = parked.input
    /\ payload' = parked.payload
    /\ resp' = parked.resp
    /\ result' = parked.result
    /\ request_id' = parked.request_id
    /\ UNCHANGED current_version
    /\ current_args' = parked.current_args
    /\ kwargs' = parked.kwargs
    /\ effective_timeout' = parked.effective_timeout
    /\ deadline' = parked.deadline
    /\ decision_data' = parked.decision_data
    /\ proposal_resp' = parked.proposal_resp
    /\ outcome' = parked.outcome
    /\ error' = parked.error
    /\ gw' = parked.gw
    /\ past' = parked.past
    /\ calls' = parked.calls
    /\ polled' = parked.polled
    /\ last_proposal' = parked.last_proposal
    /\ sent' = parked.sent
    /\ requests' = parked.requests
    /\ callback_args' = parked.callback_args
    /\ UNCHANGED <<now, remote, adapter, redaction>>

\* The running call is suspended at its await and the other one resumes.
Switch ==
    /\ DOMAIN parked # {}
    /\ parked' = Frame
    /\ pc' = parked.pc
    /\ mode' = parked.mode
    /\ input' = parked.input
    /\ payload' = parked.payload
    /\ resp' = parked.resp
    /\ result' = parked.result
    /\ request_id' = parked.request_id
    /\ current_version' = parked.current_version
    /\ current_args' = parked.current_args
    /\ kwargs' = parked.kwargs
    /\ effective_timeout' = parked.effective_timeout
    /\ deadline' = parked.deadline
    /\ decision_data' = parked.decision_data
    /\ proposal_resp' = parked.proposal_resp
    /\ outcome' = parked.outcome
    /\ error' = parked.error
    /\ gw' = parked.gw
    /\ past' = parked.past
    /\ calls' = parked.calls
    /\ polled' = parked.polled
    /\ last_proposal' = parked.last_proposal
    /\ sent' = parked.sent
    /\ requests' = parked.requests
    /\ callback_args' = parked.callback_args
    /\ UNCHANGED <<now, remote, adapter, redaction>>

\* The two calls explored.
FirstInput ==
    [tool_name |-> "send_email", tool_args |-> [text |-> <<"h", "e", "l", "l", "o">>],
     context |-> [context_summary |-> "test", risk_level |-> "LOW", tags |-> <<>>],
     on_revise |-> TRUE, poll_interval_seconds |-> 300]

SecondInput ==
    [tool_name |-> "send_email",
     tool_args |-> [text |-> <<"o", "k">>, Token |-> <<"s", "3", "c", "r", "3", "t">>],
     context |-> [context_summary |-> "test", risk_level |-> "LOW", tags |-> <<>>],
     on_revise |-> TRUE, poll_interval_seconds |-> 300]

\* The id the gateway hands out to each.
IdOf(i) == IF i = FirstInput THEN RequestId ELSE OtherRequestId

ConcurrentInit ==
    /\ ClientInit
    /\ remote = "current"
    /\ input = FirstInput
    /\ parked = NewFrame(SecondInput)
    /\ adapter = Empty
    /\ redaction = Empty

\* A registration answered with approval required under the call's own id, or
\* with the verdict ALLOW.
RegisterOwn ==
    /\ Register
    /\ resp' \in {[status_code |-> 200, data |-> [request_id |-> IdOf(input)]],
                 [status_code |-> 200, data |-> [action |-> "ALLOW"]]}

ConcurrentNext ==
    \/ RegisterOwn
    \/ FetchStatus
    \/ Sleep
    \/ DeadlineExceeded
    \/ Callback
    \/ CallbackFails
    \/ Submit
    \/ SubmitFails
    \/ FetchFails
    \/ ReviewerDecides
    \/ RequestExpires
    \/ Switch

ConcurrentSpec == ConcurrentInit /\ [][ConcurrentNext]_vars

----------------------------------------------------------------------------
(* Properties of the adapter *)

\* The adapter's registration was answered with the verdict `action`.
Verdict(action) == DOMAIN adapter.result # {} /\ adapter.result.action = action

\* C22: when registration yields ALLOW the adapter runs the tool exactly once,
\* with the caller's arguments, and never suspends; when it yields DENY the
\* adapter raises an error, the tool is never run and it never suspends.
C22_AdapterImmediateVerdict ==
    /\ Verdict("ALLOW")
          => /\ adapter.pc = "returned"
             /\ adapter.tool = <<adapter.args>>
             /\ adapter.calls.interrupt = 0
             /\ adapter.calls.submit_proposal_update = 0
    /\ Verdict("DENY")
          => /\ adapter.pc = "raised"
             /\ adapter.error.error = "RuntimeError"
             /\ adapter.tool = <<>>
             /\ adapter.calls.interrupt = 0
             /\ adapter.calls.submit_proposal_update = 0

\* C22 witness: a DENY verdict, the adapter raised and the tool did not run.
C22_Witness ==
    /\ Verdict("DENY")
    /\ adapter.pc = "raised"
    /\ adapter.error.message = "denied"
    /\ adapter.tool = <<>>
    /\ "Token" \in DOMAIN adapter.args

\* A step that resumes the suspended adapter with the decision d.
ResumedWith(d) ==
    /\ adapter.pc = "suspended"
    /\ adapter' # adapter
    /\ Get(adapter'.decision_payload, "decision", None) = d

\* C23: on an approve payload that carries updated_args the tool runs, once,
\* with the arguments held before the approval overridden by those values,
\* and nothing is submitted; on one that carries none it runs with the
\* arguments held at that point.
C23_ApproveOverrides ==
    [][ResumedWith("approve")
       => LET held == adapter.kwargs
              payload_now == adapter'.decision_payload
          IN  /\ adapter'.pc = "returned"
              /\ Len(adapter'.tool) = 1
              /\ adapter'.calls.submit_proposal_update
                    = adapter.calls.submit_proposal_update
              /\ adapter'.proposal = adapter.proposal
              /\ adapter'.calls.interrupt = adapter.calls.interrupt
              /\ IF "updated_args" \in DOMAIN payload_now
                 THEN LET u == payload_now.updated_args
                      IN  /\ DOMAIN adapter'.tool[1] = DOMAIN held \cup DOMAIN u
                          /\ \A k \in DOMAIN u : adapter'.tool[1][k] = u[k]
                          /\ \A k \in DOMAIN held \ DOMAIN u :
                                 adapter'.tool[1][k] = held[k]
                 ELSE adapter'.tool[1] = held]_vars

\* C23 witness: approved with a new text: the tool ran with the new text and
\* the Token it was called with.
C23_Witness ==
    /\ adapter.pc = "returned"
    /\ adapter.decision_payload =
          [decision |-> "approve",
           updated_args |->
               [text |-> <<"h", "e", "l", "l", "o", " ", "-", " ", "r", "e", "v", "i", "s", "e", "d">>]]
    /\ adapter.args = [text |-> <<"o", "k">>, Token |-> <<"s", "3", "c", "r", "3", "t">>]
    /\ adapter.tool =
          <<[text |-> <<"h", "e", "l", "l", "o", " ", "-", " ", "r", "e", "v", "i", "s", "e", "d">>,
             Token |-> <<"s", "3", "c", "r", "3", "t">>]>>
    /\ adapter.calls.submit_proposal_update = 0

\* C24: a revise payload without updated_args (absent, or empty) leads to no
\* submission and no change of current_version or of the arguments; the
\* adapter suspends again, on a payload of type revision_requested with the
\* payload's revise_input and revise_patch, the current arguments and the
\* unchanged version.
C24_ReviseWithoutArgsSuspends ==
    [][(ResumedWith("revise")
          /\ DOMAIN Get(adapter'.decision_payload, "updated_args", <<>>) = {})
       => /\ adapter'.pc = "suspended"
          /\ adapter'.calls.interrupt = adapter.calls.interrupt + 1
          /\ adapter'.calls.submit_proposal_update = adapter.calls.submit_proposal_update
          /\ adapter'.proposal = adapter.proposal
          /\ adapter'.current_version = adapter.current_version
          /\ adapter'.kwargs = adapter.kwargs
          /\ adapter'.tool = <<>>
          /\ adapter'.pause_payload.type = "revision_requested"
          /\ adapter'.pause_payload.revise_input
                = Get(adapter'.decision_payload, "revise_input", "")
          /\ adapter'.pause_payload.revise_patch
                = Get(adapter'.decision_payload, "revise_patch", <<>>)
          /\ adapter'.pause_payload.current_args = adapter.kwargs
          /\ adapter'.pause_payload.version = adapter.current_version
          /\ adapter'.pause_payload.request_id = adapter.request_id]_vars

\* C24 witness: after an accepted proposal (version 2) a revise without
\* updated_args suspended the run again at version 2 with the instruction.
C24_Witness ==
    /\ adapter.pc = "suspended"
    /\ adapter.decision_payload =
          [decision |-> "revise", revise_input |-> "add greeting",
           revise_patch |-> [text |-> <<"h", "i">>]]
    /\ adapter.pause_payload.type = "revision_requested"
    /\ adapter.pause_payload.version = 2
    /\ adapter.pause_payload.revise_input = "add greeting"
    /\ adapter.calls.submit_proposal_update = 1
    /\ adapter.calls.interrupt = 3

\* A step in which the adapter's proposal is answered.
ProposalAnswered ==
    /\ adapter'.calls.submit_proposal_update = adapter.calls.submit_proposal_update + 1
    /\ ~(adapter'.pc = "raised" /\ adapter'.error = Failure)

\* C25: after a proposal whose answer carries a status that is neither
\* AUTO_ALLOWED nor AUTO_DENIED the adapter suspends, on a payload of type
\* revised_proposal_pending with the version the answer carries (the old
\* version plus 1 when it carries none); the adapter never fetches a status;
\* and its first suspension is of type approval_required.
C25_SuspendsAfterProposal ==
    /\ [][(ProposalAnswered
            /\ Get(adapter'.proposal_resp, "status", None)
                  \notin {"AUTO_ALLOWED", "AUTO_DENIED"})
           => /\ adapter'.pc = "suspended"
              /\ adapter'.calls.interrupt = adapter.calls.interrupt + 1
              /\ adapter'.pause_payload.type = "revised_proposal_pending"
              /\ adapter'.pause_payload.version
                    = (IF "version" \in DOMAIN adapter'.proposal_resp
                       THEN adapter'.proposal_resp.version
                       ELSE adapter.current_version + 1)
              /\ adapter'.pause_payload.request_id = adapter.request_id]_vars
    /\ [](adapter.calls.get_request = 0)
    /\ [][(adapter.calls.interrupt = 0 /\ adapter'.calls.interrupt > 0)
           => /\ adapter'.calls.interrupt = 1
              /\ adapter'.pause_payload.type = "approval_required"
              /\ adapter'.pause_payload.request_id = adapter'.result.request_id]_vars
    /\ [](adapter.calls.interrupt = 1 => adapter.pause_payload.type = "approval_required")

\* C25 witness: the proposal made at version 1 was answered PENDING at
\* version 2 and the adapter is suspended on that version.
C25_Witness ==
    /\ adapter.pc = "suspended"
    /\ adapter.proposal_resp = [status |-> "PENDING", version |-> 2]
    /\ adapter.proposal.version_from = 1
    /\ adapter.pause_payload.type = "revised_proposal_pending"
    /\ adapter.pause_payload.version = 2
    /\ adapter.calls.interrupt = 2

\* C26: when the answer to a proposal carries AUTO_ALLOWED the tool runs, with
\* the revised arguments (those of the proposal), and the adapter does not
\* suspend again; when it carries AUTO_DENIED the adapter raises an error, the
\* tool is never run and the adapter does not suspend again.
C26_AdapterPolicyShortCircuit ==
    [][ProposalAnswered
       => LET new_status == Get(adapter'.proposal_resp, "status", None)
              u == adapter'.decision_payload.updated_args
          IN  /\ new_status = "AUTO_ALLOWED"
                    => /\ adapter'.pc = "returned"
                       /\ Len(adapter'.tool) = 1
                       /\ adapter'.tool[1] = adapter'.proposal.updated_tool_args
                       /\ \A k \in DOMAIN u : adapter'.tool[1][k] = u[k]
                       /\ \A k \in DOMAIN adapter.kwargs \ DOMAIN u :
                              adapter'.tool[1][k] = adapter.kwargs[k]
                       /\ adapter'.calls.interrupt = adapter.calls.interrupt
              /\ new_status = "AUTO_DENIED"
                    => /\ adapter'.pc = "raised"
                       /\ adapter'.error.error = "RuntimeError"
                       /\ adapter'.tool = <<>>
                       /\ adapter'.calls.interrupt = adapter.calls.interrupt]_vars

\* C26 witness: the revised proposal was auto-denied: the adapter raised after
\* one interrupt and the tool did not run.
C26_Witness ==
    /\ adapter.pc = "raised"
    /\ Get(adapter.proposal_resp, "status", None) = "AUTO_DENIED"
    /\ adapter.error = [error |-> "RuntimeError", message |-> "policy auto-denied"]
    /\ adapter.tool = <<>>
    /\ adapter.calls.interrupt = 1
    /\ adapter.calls.submit_proposal_update = 1

----------------------------------------------------------------------------
(* Properties of the engine and the adapter side by side *)

\* C27: fed the same verdict, decisions and proposal answers as the engine,
\* the adapter runs the tool only when the engine returns ALLOW, APPROVED or
\* AUTO_ALLOWED, with the arguments of the engine's outcome, and raises its
\* error only when the engine returns DENY, REJECTED or AUTO_DENIED; a
\* failure of the registration is raised by both; and whenever both have made
\* the same number of proposals, the last of each has the same version_from
\* and the same updated arguments.
C27_SameTransitions ==
    /\ adapter.pc = "returned"
          => /\ pc = "done"
             /\ outcome.action \in {"ALLOW", "APPROVED", "AUTO_ALLOWED"}
             /\ adapter.tool = <<outcome.tool_args>>
    /\ (adapter.pc = "raised" /\ adapter.error.error = "RuntimeError")
          => /\ pc = "done"
             /\ outcome.action \in {"DENY", "REJECTED", "AUTO_DENIED"}
    /\ (adapter.pc = "raised" /\ adapter.error.error # "RuntimeError")
          => /\ pc = "raised"
             /\ error = adapter.error
    /\ (InStep /\ calls.submit_proposal_update > 0)
          => /\ adapter.proposal.version_from = last_proposal.version_from
             /\ adapter.proposal.updated_tool_args = last_proposal.updated_tool_args

----------------------------------------------------------------------------
(* Properties of two negotiations on one client *)

\* The proposals of the call with locals F that were answered.
Answered(F) ==
    F.calls.submit_proposal_update
        - (IF F.pc = "raised" /\ F.error = Failure THEN 1 ELSE 0)

\* What holds of the locals F of a call that runs alone against a gateway that
\* answers with its current record: the call waits on and reports the id it
\* was given, its version is 1 plus the number of its own proposals that
\* were answered, its
\* arguments are the caller's until its own callback returned and then what
\* that returned, its k-th proposal names version k and carries those
\* arguments, and its outcome carries its own id, arguments and version.
AsAlone(F) ==
    (DOMAIN F.result # {} /\ F.result.action = "REQUIRE_APPROVAL")
    => /\ F.request_id = F.result.request_id
       /\ F.current_version = 1 + Answered(F)
       /\ F.current_args = (IF DOMAIN F.callback_args = {} THEN F.input.tool_args
                            ELSE F.callback_args)
       /\ DOMAIN F.kwargs # {}
             => /\ F.kwargs.request_id = F.request_id
                /\ "after_version" \in DOMAIN F.kwargs
                      => F.kwargs.after_version = F.current_version
       /\ DOMAIN F.last_proposal # {}
             => /\ F.last_proposal.version_from = F.calls.submit_proposal_update
                /\ F.calls.on_revise = F.calls.submit_proposal_update
                      => F.last_proposal.updated_tool_args = F.callback_args
       /\ F.pc = "done"
             => /\ F.outcome.request_id = F.request_id
                /\ "tool_args" \in DOMAIN F.outcome
                      => F.outcome.tool_args = F.current_args
                /\ "version" \in DOMAIN F.outcome
                      => F.outcome.version = F.current_version
       /\ (F.pc = "raised" /\ F.error.error = "TimeoutError")
             => F.error.request_id = F.request_id

\* C28: of two run_approval_loop calls for different request ids, interleaved
\* at their awaits in any order, each evolves as it does alone (its version,
\* arguments, proposals and outcome follow from its own steps), and a step of
\* one leaves the other's locals, current_version, current_args and
\* request_id among them, exactly as they were: they change hands only whole,
\* at a switch.
C28_NegotiationsIndependent ==
    /\ [](AsAlone(Frame) /\ AsAlone(parked))
    /\ [](/\ request_id \in {None, IdOf(input)}
          /\ parked.request_id \in {None, IdOf(parked.input)}
          /\ input # parked.input)
    /\ [][parked' # parked => (parked' = Frame /\ Frame' = parked)]_vars
    /\ [][parked' = parked => Frame'.input = Frame.input]_vars

\* C28 witness: the second call negotiated a revision and was approved at
\* version 2 while the first, two fetches into its own wait, was rejected at
\* version 1.
C28_Witness ==
    /\ pc = "done"
    /\ request_id = OtherRequestId
    /\ outcome.action = "APPROVED"
    /\ outcome.version = 2
    /\ calls.submit_proposal_update = 1
    /\ parked.pc = "done"
    /\ parked.request_id = RequestId
    /\ parked.outcome.action = "REJECTED"
    /\ parked.current_version = 1
    /\ parked.calls.get_request = 2

----------------------------------------------------------------------------
(* Properties of redact *)

\* The alphanumeric runs of a string: the pairs of its first and last index.
AlnumRuns(value) ==
    {r \in (1..Len(value)) \X (1..Len(value)) :
        /\ r[1] <= r[2]
        /\ \A i \in r[1]..r[2] : value[i] \in AlnumChars}

\* The rule by which a field is to be masked: "name", "entropy" or "none".
Rule(key, value) ==
    IF IsStr(value) /\ (\E name \in SECRET_KEYS : Lower(key) = name)
    THEN "name"
    ELSE IF /\ IsStr(value)
            /\ Len(value) > 12
            /\ \E r \in AlnumRuns(value) : r[2] - r[1] + 1 >= 12
         THEN "entropy"
         ELSE "none"

----------------------------------------------------------------------------
(* Properties of the poll loop *)

\* The time the running or last wait has spent asleep.
Asleep == now - CalledAt

\* C30: within one wait_for_decision call fetches and sleeps alternate.  A
\* fetch that does not return its snapshot is followed by one sleep of
\* poll_interval_seconds and then the loop condition; before the n-th
\* fetch the wait has slept n - 1 times the same interval; the fetch whose
\* snapshot is returned is followed by no sleep.
C30_FetchesAndSleepsAlternate ==
    /\ [](pc = "poll" => Asleep = polled.fetched * kwargs.poll_interval_seconds)
    /\ [](pc = "sleep" => /\ polled.fetched >= 1
                          /\ ~Returned
                          /\ Asleep = (polled.fetched - 1) * kwargs.poll_interval_seconds)
    /\ [](Returned => Asleep = (polled.fetched - 1) * kwargs.poll_interval_seconds)
    /\ [][polled'.fetched = polled.fetched + 1
             => /\ pc = "poll"
                /\ now' = now
                /\ (pc' = "sleep") = ~Returned']_vars
    /\ [][(pc = "sleep" /\ pc' # pc)
             => /\ pc' = "poll"
                /\ now' = now + kwargs.poll_interval_seconds
                /\ polled' = polled
                /\ kwargs' = kwargs]_vars
    /\ [][now' # now => pc = "sleep"]_vars

\* A wait has returned the snapshot of its third fetch after two sleeps of
\* its interval.
C30_Witness ==
    /\ Returned
    /\ polled.fetched = 3
    /\ Asleep = 2 * kwargs.poll_interval_seconds
    /\ pc = "done"

----------------------------------------------------------------------------
(* Properties of the proposals of a run *)

\* The engine submits a proposal in this step.
EngineProposes == calls'.submit_proposal_update = calls.submit_proposal_update + 1

\* The adapter submits a proposal in this step.
AdapterProposes ==
    IF DOMAIN adapter # {}
    THEN adapter'.calls.submit_proposal_update = adapter.calls.submit_proposal_update + 1
    ELSE FALSE

\* The version_from due after `made` proposals, the last of which named
\* version_from `before` and was answered with `answer`: 1 for the first
\* proposal, then the version of the answer, or `before` plus 1 when the
\* answer carries none.
VersionDue(made, before, answer) ==
    IF made = 0 THEN 1
    ELSE IF "version" \in DOMAIN answer THEN answer.version
    ELSE before.version_from + 1

\* C31: in the engine and in the adapter the first proposal of a run has
\* version_from 1, and each later proposal has the version of the answer to
\* the proposal before it, or the version_from of that proposal plus 1 when
\* the answer carries no version.
C31_VersionFromFollowsAnswers ==
    /\ [][EngineProposes
             => last_proposal'.version_from
                   = VersionDue(calls.submit_proposal_update, last_proposal,
                                proposal_resp)]_vars
    /\ [][AdapterProposes
             => adapter'.proposal.version_from
                   = VersionDue(adapter.calls.submit_proposal_update, adapter.proposal,
                                adapter.proposal_resp)]_vars

\* The engine has made its second proposal, with version_from 2 after a first
\* proposal with version_from 1.
C31_Witness ==
    /\ EngineRuns
    /\ calls.submit_proposal_update = 2
    /\ last_proposal.version_from = 2
    /\ sent.version_from = 2

\* The body carries, as its redacted arguments, redact of its own full
\* arguments.
RedactedFromOwn(body, full, redacted) ==
    DOMAIN body # {} => body[redacted] = redact(body[full])

\* C32: in the registration body and in every proposal of the engine and of
\* the adapter the redacted arguments are redact of the full arguments of
\* the same body, and the full arguments of a proposal are the arguments
\* the run holds when it submits: never those of an earlier round.
C32_RedactedFromSameArgs ==
    /\ [](/\ RedactedFromOwn(payload, "tool_args", "tool_args_redacted")
          /\ RedactedFromOwn(last_proposal, "updated_tool_args",
                             "updated_tool_args_redacted")
          /\ RedactedFromOwn(sent, "updated_tool_args", "updated_tool_args_redacted"))
    /\ [](DOMAIN adapter # {}
            => /\ RedactedFromOwn(adapter.payload, "tool_args", "tool_args_redacted")
               /\ RedactedFromOwn(adapter.proposal, "updated_tool_args",
                                  "updated_tool_args_redacted"))
    /\ [][EngineProposes
             => /\ sent'.updated_tool_args = current_args'
                /\ last_proposal'.updated_tool_args = current_args']_vars
    /\ [][AdapterProposes => adapter'.proposal.updated_tool_args = adapter'.kwargs]_vars

\* The engine registered arguments with a password and has made a second
\* proposal whose arguments carry a token and no password: the password is
\* masked in the registration body, the token in the proposal.
C32_Witness ==
    /\ EngineRuns
    /\ calls.submit_proposal_update = 2
    /\ payload.tool_args.password # MaskToken
    /\ payload.tool_args_redacted.password = MaskToken
    /\ DOMAIN sent.updated_tool_args = {"text", "Token"}
    /\ sent.updated_tool_args.Token # MaskToken
    /\ sent.updated_tool_args_redacted = [text |-> <<"o", "k">>, Token |-> MaskToken]

----------------------------------------------------------------------------
(* Properties of the staleness filter *)

\* get_request answers in this step.
Fetches == polled'.fetched = polled.fetched + 1

\* C33: while current_version is 1 the engine's wait runs without
\* after_version, and a fetch it does not return found no decision: the first
\* fetched snapshot that has a last_decision is returned, whatever its status
\* and version.
C33_NoFilterAtVersionOne ==
    /\ []((InLoop /\ pc \in {"poll", "sleep"} /\ current_version = 1)
            => "after_version" \notin DOMAIN kwargs)
    /\ [][(InLoop /\ current_version = 1 /\ Fetches /\ ~Returned')
             => /\ polled'.undecided = polled.undecided + 1
                /\ polled'.stale = polled.stale]_vars

\* At current_version 1 the wait returned, after a fetch that found no
\* decision, a snapshot with a revise decision on status PENDING at version 2.
C33_Witness ==
    /\ InLoop /\ current_version = 1 /\ Returned
    /\ calls.submit_proposal_update = 0
    /\ polled = [fetched |-> 2, stale |-> 0, undecided |-> 1, terminal |-> 0]
    /\ decision_data.status = "PENDING"
    /\ decision_data.last_decision = "revise"
    /\ Get(decision_data, "version", 0) = 2

\* The snapshot's status is PENDING or REVISE_REQUESTED.
OnWaitingStatus(last) == Get(last, "status", "") \in {"PENDING", "REVISE_REQUESTED"}

\* C34: a snapshot returned by wait_for_decision has a last_decision or a
\* status that is neither PENDING nor REVISE_REQUESTED; and when the wait was
\* called with after_version = v, a returned snapshot on PENDING or
\* REVISE_REQUESTED reports a version below v, a missing version counting as 1.
C34_ReturnedSnapshots ==
    Returned
    => /\ \/ Get(decision_data, "last_decision", None) # None
          \/ ~OnWaitingStatus(decision_data)
       /\ ("after_version" \in DOMAIN kwargs /\ OnWaitingStatus(decision_data))
             => Get(decision_data, "version", 1) < kwargs.after_version

\* A wait called with after_version = 2 returned a snapshot on
\* REVISE_REQUESTED that reports no version, after skipping one at version 2.
C34_Witness ==
    /\ Returned
    /\ "after_version" \in DOMAIN kwargs
    /\ kwargs.after_version = 2
    /\ decision_data.status = "REVISE_REQUESTED"
    /\ decision_data.last_decision = "revise"
    /\ "version" \notin DOMAIN decision_data
    /\ polled.stale = 1

----------------------------------------------------------------------------
(* Properties of the branches of run_approval_loop *)

\* The snapshot the loop was handed says approve, by decision or by status.
SaysApprove == decision_data.last_decision = "approve" \/ decision_data.status = "APPROVED"

\* It says reject, by decision or by status.
SaysReject == decision_data.last_decision = "reject" \/ decision_data.status = "REJECTED"

\* C35: the branches of run_approval_loop are tried in the order approve,
\* reject, AUTO_ALLOWED, AUTO_DENIED, EXPIRED, revise.  A snapshot whose
\* last_decision is approve yields APPROVED whatever its status, and one whose
\* status is APPROVED yields APPROVED whatever its last_decision; reject
\* comes next, then the policy and expiry statuses; the callback is called
\* only on a snapshot to which none of these applies and which says revise.
C35_BranchOrder ==
    /\ (InLoop /\ Returned /\ SaysApprove) => (pc = "done" /\ outcome.action = "APPROVED")
    /\ (InLoop /\ Returned /\ ~SaysApprove /\ SaysReject)
          => (pc = "done" /\ outcome.action = "REJECTED")
    /\ (InLoop /\ Returned /\ ~SaysApprove /\ ~SaysReject
           /\ decision_data.status \in {"AUTO_ALLOWED", "AUTO_DENIED", "EXPIRED"})
          => (pc = "done" /\ outcome.action = decision_data.status)
    /\ (InLoop /\ pc = "callback")
          => /\ Returned
             /\ ~SaysApprove
             /\ ~SaysReject
             /\ decision_data.status \notin {"AUTO_ALLOWED", "AUTO_DENIED", "EXPIRED"}
             /\ \/ decision_data.last_decision = "revise"
                \/ decision_data.status = "REVISE_REQUESTED"

\* With a callback configured the loop was handed a snapshot with status
\* EXPIRED and last_decision approve, and returned APPROVED without calling it.
C35_Witness ==
    /\ InLoop /\ Returned /\ pc = "done"
    /\ input.on_revise
    /\ decision_data.status = "EXPIRED"
    /\ decision_data.last_decision = "approve"
    /\ outcome.action = "APPROVED"
    /\ calls.on_revise = 0

----------------------------------------------------------------------------
(* Properties of the locals of run_approval_loop *)

\* C36: in run_approval_loop current_args is assigned the caller's arguments
\* at entry and afterwards only what the callback returned, and
\* current_version changes only when a proposal is answered; a fetch, a sleep
\* and a branch that ends the run leave both as they are, and the caller's
\* tool_args are never modified.
C36_ArgsAndVersionFrame ==
    /\ [][InLoop' /\ current_args' # current_args
             => \/ pc = "start" /\ current_args' = input.tool_args
                \/ /\ pc = "callback"
                   /\ calls'.on_revise = calls.on_revise + 1
                   /\ current_args' = callback_args']_vars
    /\ [][InLoop' /\ current_version' # current_version
             => /\ pc = "submit"
                /\ calls'.submit_proposal_update = calls.submit_proposal_update + 1
                /\ DOMAIN proposal_resp' # {}]_vars
    /\ [][(Fetches \/ now' # now \/ (pc = "poll" /\ pc' \in {"done", "raised"}))
             => (current_args' = current_args /\ current_version' = current_version)]_vars
    /\ [][input'.tool_args = input.tool_args]_vars

\* After a negotiation that replaced the arguments and raised the version to
\* 2, the loop has fetched and sleeps: arguments and version are the
\* negotiation's, the caller's tool_args are as they were passed.
C36_Witness ==
    /\ InLoop /\ pc = "sleep"
    /\ calls.submit_proposal_update = 1
    /\ polled.fetched = 1
    /\ current_version = 2
    /\ current_args = callback_args
    /\ current_args # input.tool_args
    /\ payload.tool_args = input.tool_args

----------------------------------------------------------------------------
(* Properties of the adapter's runs of the tool *)

\* The tool is run in this step.
ToolRuns == Len(adapter'.tool) = Len(adapter.tool) + 1

\* The decision of the payload the run was resumed with in this step.
DecisionGiven == Get(adapter'.decision_payload, "decision", None)

\* The adapter is resumed in this step.
Resumes == adapter.pc = "suspended" /\ adapter' # adapter

\* C37: in a run of the adapter the tool is executed at most once, and only
\* in the step that reads an ALLOW verdict, that is resumed with decision
\* approve, or that gets AUTO_ALLOWED as the answer to a proposal.  After a
\* DENY verdict, a reject decision, an AUTO_DENIED answer or a payload whose
\* decision is none of approve, reject, revise the adapter has raised and the
\* tool was never executed.
C37_ToolRunsOnceWhenCleared ==
    /\ [](Len(adapter.tool) <= 1)
    /\ [](adapter.pc = "raised" => adapter.tool = <<>>)
    /\ [](Len(adapter.tool) = 1 => adapter.pc = "returned")
    /\ [][ToolRuns
             => \/ adapter.pc = "start" /\ adapter'.result.action = "ALLOW"
                \/ Resumes /\ DecisionGiven = "approve"
                \/ /\ Resumes
                   /\ DecisionGiven = "revise"
                   /\ adapter'.calls.submit_proposal_update
                         = adapter.calls.submit_proposal_update + 1
                   /\ adapter'.proposal_resp.status = "AUTO_ALLOWED"]_vars
    /\ [][(adapter.pc = "start" /\ adapter' # adapter
            /\ Get(adapter'.result, "action", None) = "DENY")
             => adapter'.pc = "raised"]_vars
    /\ [][(Resumes /\ DecisionGiven \notin {"approve", "revise"})
             => adapter'.pc = "raised"]_vars
    /\ [][(Resumes /\ DecisionGiven = "revise"
            /\ adapter'.calls.submit_proposal_update
                  = adapter.calls.submit_proposal_update + 1
            /\ Get(adapter'.proposal_resp, "status", None) = "AUTO_DENIED"
            /\ adapter'.proposal_resp # adapter.proposal_resp)
             => adapter'.pc = "raised"]_vars

\* A run that was suspended, resumed with a revision whose proposal stayed
\* pending, suspended again and resumed with approve: the tool ran once.
C37_Witness ==
    /\ adapter.pc = "returned"
    /\ adapter.calls.interrupt = 2
    /\ adapter.calls.submit_proposal_update = 1
    /\ adapter.proposal_resp.status = "PENDING"
    /\ adapter.decision_payload.decision = "approve"
    /\ Len(adapter.tool) = 1

----------------------------------------------------------------------------
(* Properties of a negotiation against current reads *)

\* The versions on which the reviewer has asked for a revision: one decision
\* per version, since the action leaves REVISE_REQUESTED only by a proposal,
\* which raises the version, or for good.
ReviseDecisions ==
    {rec.version : rec \in {r \in past \cup {gw} : r.status = "REVISE_REQUESTED"}}

\* C38: when every fetch answers the gateway's current record and the gateway
\* raises the version once per accepted proposal, the callback is invoked and
\* a proposal submitted at most once per revise decision of the reviewer:
\* the callback is handed a decision on the gateway's current version only
\* while no proposal was accepted for it, and once one was accepted the
\* decision that led to it, still shown by the snapshot, is skipped.
C38_OneNegotiationPerDecision ==
    /\ []((InLoop /\ remote = "current")
            => /\ calls.on_revise <= Cardinality(ReviseDecisions)
               /\ calls.submit_proposal_update <= Cardinality(ReviseDecisions)
               /\ gw.version = 1 + (calls.submit_proposal_update
                                       - (IF pc = "raised" /\ error = Failure THEN 1 ELSE 0)))
    /\ [][(InLoop /\ remote = "current" /\ pc # "callback" /\ pc' = "callback")
             => /\ decision_data' = gw
                /\ gw.status = "REVISE_REQUESTED"
                /\ gw.version = current_version
                /\ calls.on_revise = gw.version - 1
                /\ calls.submit_proposal_update = gw.version - 1]_vars
    /\ [][(InLoop /\ remote = "current" /\ Fetches
            /\ gw.last_decision = "revise" /\ gw.status = "PENDING"
            /\ gw.version > 1)
             => (~Returned' /\ polled'.stale = polled.stale + 1)]_vars

\* Against current reads one revision was negotiated and accepted as version
\* 2; the snapshot still shows the revise decision, now on PENDING, and the
\* wait has skipped it twice: one callback invocation, one proposal.
C38_Witness ==
    /\ InLoop /\ remote = "current"
    /\ gw = [status |-> "PENDING", version |-> 2, last_decision |-> "revise",
             last_decision_revise_input |-> "add greeting"]
    /\ polled.stale = 2
    /\ calls.on_revise = 1
    /\ calls.submit_proposal_update = 1
    /\ Cardinality(ReviseDecisions) = 1

----------------------------------------------------------------------------
(* Properties of the deadlines of a run *)

\* In one of the waits of run_approval_loop.
InWait == EngineRuns /\ pc \in {"poll", "sleep"}

\* The deadline the first wait of the run computed: the run starts at 0.
FirstDeadline ==
    EffectiveTimeout(LoopWaitArgs(request_id, result, input.poll_interval_seconds, 1),
                     0).timeout

----------------------------------------------------------------------------
(* Properties of the request id of a verdict *)

\* C40: a REQUIRE_APPROVAL verdict of before_execute carries a request id,
\* and the engine neither fetches the status of nor submits a proposal for a
\* request without one.
C40_ApprovalCarriesRequestId ==
    /\ Get(result, "action", "") = "REQUIRE_APPROVAL" => result.request_id # None
    /\ (InLoop /\ calls.get_request > 0) => kwargs.request_id # None
    /\ (InLoop /\ calls.submit_proposal_update > 0) => request_id # None

====
